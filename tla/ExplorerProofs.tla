--------------------------- MODULE ExplorerProofs ---------------------------
(***************************************************************************)
(* What Explorer guarantees for any number of struct types, graphs,        *)
(* tutorial steps, navigations and frames.                                 *)
(***************************************************************************)
EXTENDS Explorer, SequenceTheorems, TLAPS

---------------------------------------------------------------------------
(* Frames and stacks *)

\* The constructors build frames.
LEMMA FrameTypes ==
    /\ \A v \in Views, t \in Nat, g \in Tags \cup {NoTag}, r \in Roots \cup {NoRoot} :
          Pane(v, t, g, r) \in Frame
    /\ \A v \in Views, t \in Nat : Waiting(v, t) \in Frame
    /\ \A b \in Build : Answer(b) \in Frame
  BY DEF Frame, Pane, Waiting, Answer, Build, Views

\* Popping keeps the other frames.
LEMMA BelowProps ==
    ASSUME NEW s \in Seq(Frame), s # <<>>
    PROVE  /\ Below(s) \in Seq(Frame)
           /\ Len(Below(s)) = Len(s) - 1
           /\ Len(s) \in Nat \ {0}
           /\ \A i \in 1..(Len(s) - 1) : Below(s)[i] = s[i]
  <1>1. Len(s) \in Nat \ {0} /\ \A i \in 1..Len(s) : s[i] \in Frame
    BY EmptySeq, ElementOfSeq
  <1>2. \A i \in 1..(Len(s) - 1) : s[i] \in Frame
    BY <1>1
  <1> DEFINE n == Len(s) - 1
  <1>3. n \in Int /\ 1 \in Int /\ \A i \in 1..n : s[i] \in Frame
    BY <1>1, <1>2
  <1> HIDE DEF n
  <1>4. /\ SubSeq(s, 1, n) \in Seq(Frame)
        /\ Len(SubSeq(s, 1, n)) = IF 1 <= n THEN n - 1 + 1 ELSE 0
        /\ \A i \in 1..(n - 1 + 1) : SubSeq(s, 1, n)[i] = s[1 + i - 1]
    BY <1>3, SubSeqProperties
  <1>5. n \in Nat /\ n - 1 + 1 = n /\ \A i \in 1..n : 1 + i - 1 = i
    BY <1>1 DEF n
  <1>6. Len(SubSeq(s, 1, n)) = n /\ \A i \in 1..n : SubSeq(s, 1, n)[i] = s[i]
    BY <1>4, <1>5
  <1> QED
    BY <1>1, <1>4, <1>6 DEF Below, n

\* Pushing keeps the frames below and shows the new one.
LEMMA AppendProps ==
    ASSUME NEW s \in Seq(Frame), NEW f \in Frame
    PROVE  /\ Append(s, f) \in Seq(Frame)
           /\ Append(s, f) # <<>>
           /\ Len(Append(s, f)) = Len(s) + 1
           /\ Top(Append(s, f)) = f
           /\ \A i \in 1..Len(s) : Append(s, f)[i] = s[i]
  BY AppendProperties DEF Top

\* Replacing the frame on screen keeps the frames below.
LEMMA ReplaceTopProps ==
    ASSUME NEW s \in Seq(Frame), s # <<>>, NEW f \in Frame
    PROVE  LET n == Append(Below(s), f)
           IN  /\ n \in Seq(Frame) /\ n # <<>>
               /\ Len(n) = Len(s) /\ Top(n) = f
               /\ \A i \in 1..(Len(s) - 1) : n[i] = s[i]
  <1>1. /\ Below(s) \in Seq(Frame) /\ Len(Below(s)) = Len(s) - 1 /\ Len(s) \in Nat
        /\ \A i \in 1..(Len(s) - 1) : Below(s)[i] = s[i]
    BY BelowProps
  <1> QED
    BY <1>1, AppendProps

\* A tutorial step shows its own frame on top of those of the steps before.
LEMMA StepStackProps ==
    ASSUME NEW i \in 1..NSteps
    PROVE  /\ StepStack(i) \in Seq(Frame)
           /\ Len(StepStack(i)) = i
           /\ StepStack(i) # <<>>
           /\ \A j \in 1..i : StepStack(i)[j] = Pane("step", 0, StepTag[j], NoRoot)
  <1>1. NSteps \in Nat /\ \A j \in 1..NSteps : StepTag[j] \in Tags \cup {NoTag}
    BY ConstantsAssumption, LenProperties, ElementOfSeq DEF NSteps
  <1>2. \A j \in 1..i : Pane("step", 0, StepTag[j], NoRoot) \in Frame
    BY <1>1, FrameTypes DEF Views
  <1>3. StepStack(i) \in [1..i -> Frame]
    BY <1>2 DEF StepStack
  <1>4. StepStack(i) \in Seq(Frame) /\ Len(StepStack(i)) = i
    BY <1>1, <1>3
  <1> QED
    BY <1>1, <1>4, EmptySeq DEF StepStack

---------------------------------------------------------------------------
(* Types *)

LEMMA LineTypes ==
    /\ Idle \in Lines
    /\ \A t \in Nat : BuildLine(t) \in Lines
    /\ \A g \in Tags : DocLine(g) \in Lines
  BY DEF Idle, BuildLine, DocLine, Lines

LEMMA ReaderTypes ==
    ASSUME NEW d \in [Tags -> {"absent", "loading"} \cup Answers],
           NEW n \in [Tags -> Nat], NEW g \in Tags, StartReader(d, n, g)
    PROVE  /\ docs' \in [Tags -> {"absent", "loading"} \cup Answers]
           /\ readers' \in [Tags -> Nat]
           /\ activity' \in Lines
  <1>1. docs' \in [Tags -> {"absent", "loading"} \cup Answers]
    BY DEF StartReader
  <1>2. readers' \in [Tags -> Nat]
    BY DEF StartReader
  <1> QED
    BY <1>1, <1>2, LineTypes DEF StartReader

\* The parts of TypeOK that a rendering touches
PaneTypes ==
    /\ stack \in Seq(Frame)
    /\ docs \in [Tags -> {"absent", "loading"} \cup Answers]
    /\ readers \in [Tags -> Nat]
    /\ activity \in Lines

\* Rendering a stack of frames leaves the doc line and the workers well typed.
LEMMA RenderTypes ==
    ASSUME TypeOK, NEW s \in Seq(Frame), NEW line \in Lines, Render(s, line)
    PROVE  PaneTypes'
  <1>1. CASE s # <<>> /\ Top(s).tag # NoTag /\ docs[Top(s).tag] = "absent"
    <2>1. Top(s) \in Frame
      BY <1>1, EmptySeq, ElementOfSeq DEF Top
    <2>2. Top(s).tag \in Tags
      BY <1>1, <2>1 DEF Frame
    <2>3. StartReader(docs, readers, Top(s).tag) /\ stack' = s
      BY <1>1 DEF Render, UpdateDoc
    <2> QED
      BY <2>2, <2>3, LineTypes DEF StartReader, TypeOK, PaneTypes
  <1>2. CASE ~(s # <<>> /\ Top(s).tag # NoTag /\ docs[Top(s).tag] = "absent")
    <2>1. stack' = s /\ docs' = docs /\ readers' = readers /\ activity' = line
      BY <1>2 DEF Render, UpdateDoc
    <2> QED
      BY <2>1 DEF TypeOK, PaneTypes
  <1> QED
    BY <1>1, <1>2

\* A push counts the navigation and shows a frame.
LEMMA PushTypes ==
    ASSUME TypeOK, NEW s \in Seq(Frame), NEW v \in Views,
           NEW g \in Tags \cup {NoTag}, NEW r \in Roots \cup {NoRoot}, Push(s, v, g, r)
    PROVE  PaneTypes' /\ token' \in Nat /\ builds' \subseteq Build
  <1>1. token + 1 \in Nat
    BY DEF TypeOK
  <1>2. Append(s, Pane(v, token + 1, g, r)) \in Seq(Frame)
    BY <1>1, FrameTypes, AppendProps
  <1>3. PaneTypes'
    BY <1>2, LineTypes, RenderTypes DEF Push
  <1> QED
    BY <1>1, <1>3 DEF Push, TypeOK

\* So does a deferred open, with a worker.
LEMMA DeferredTypes ==
    ASSUME TypeOK, NEW s \in Seq(Frame), NEW v \in Deferred, OpenDeferred(s, v)
    PROVE  PaneTypes' /\ token' \in Nat /\ builds' \subseteq Build
  <1>1. token + 1 \in Nat /\ v \in Views
    BY DEF TypeOK, Views
  <1>2. Append(s, Waiting(v, token + 1)) \in Seq(Frame)
    BY <1>1, FrameTypes, AppendProps
  <1>3. [token |-> token + 1, view |-> v] \in Build
    BY <1>1 DEF Build
  <1> QED
    BY <1>1, <1>2, <1>3, LineTypes DEF OpenDeferred, PaneTypes, TypeOK

LEMMA OpenPlanTypes ==
    ASSUME TypeOK, NEW s \in Seq(Frame), OpenPlan(s)
    PROVE  PaneTypes' /\ token' \in Nat /\ builds' \subseteq Build
  <1>1. "struct" \in Views /\ "file" \in Views /\ "report" \in Deferred
    BY DEF Views, Deferred
  <1>2. NoTag \in Tags \cup {NoTag} /\ NoRoot \in Roots \cup {NoRoot}
    OBVIOUS
  <1> QED
    BY <1>1, <1>2, PushTypes, DeferredTypes DEF OpenPlan

\* A tutorial step leaves the counters alone.
LEMMA ShowStepTypes ==
    ASSUME TypeOK, NEW i \in 0..NSteps, ShowStep(i)
    PROVE  /\ PaneTypes' /\ token' \in Nat /\ builds' \subseteq Build
           /\ step' \in {NoTutorial} \cup 0..NSteps /\ landing' \in BOOLEAN
  <1>1. CASE i = 0
    BY <1>1 DEF ShowStep, TypeOK, PaneTypes
  <1>2. CASE i # 0
    <2>1. i \in 1..NSteps
      BY <1>2, ConstantsAssumption, LenProperties DEF NSteps
    <2>2. PaneTypes'
      BY <1>2, <2>1, StepStackProps, LineTypes, RenderTypes DEF ShowStep
    <2> QED
      BY <2>2 DEF ShowStep, TypeOK
  <1> QED
    BY <1>1, <1>2

\* The rest of TypeOK, for the actions that only touch the pane
RestTypes ==
    /\ pending \in Tags \cup {NoTag}
    /\ step \in {NoTutorial} \cup 0..NSteps
    /\ landing \in BOOLEAN
    /\ graph \in Roots \cup {NoRoot}
    /\ saved \in Roots \cup {NoRoot}
    /\ returnDepth \in Nat

\* TypeOK is the pane, the counters and the rest, before and after a step.
LEMMA TypeParts ==
    /\ TypeOK => RestTypes
    /\ PaneTypes' /\ token' \in Nat /\ builds' \subseteq Build /\ RestTypes' => TypeOK'
  BY DEF TypeOK, PaneTypes, RestTypes

LEMMA PopTypes ==
    ASSUME TypeOK, stack # <<>>, token' = token + 1, Render(Below(stack), activity)
    PROVE  PaneTypes' /\ token' \in Nat
  BY BelowProps, RenderTypes DEF TypeOK

\* A step of the user keeps the types.
LEMMA UserTypes == TypeOK /\ User => TypeOK'
  <1> SUFFICES ASSUME TypeOK, User PROVE TypeOK'
    OBVIOUS
  <1> USE DEF navVars, docVars, tourVars, graphVars
  <1>0. /\ stack \in Seq(Frame) /\ <<>> \in Seq(Frame)
        /\ (stack # <<>> => Len(stack) \in Nat \ {0}) /\ Len(stack) \in Nat
        /\ NSteps \in Nat
        /\ NoTag \in Tags \cup {NoTag} /\ NoRoot \in Roots \cup {NoRoot}
    BY EmptySeq, LenProperties, ConstantsAssumption DEF TypeOK, NSteps
  <1>v. /\ {"struct", "file", "step"} \subseteq Views
        /\ {"trace", "source", "report"} \subseteq Deferred
    BY DEF Views, Deferred
  <1>r. RestTypes
    BY TypeParts
  <1>1. CASE OpenNode
    <2>1. OpenPlan(<<>>) /\ RestTypes'
      BY <1>r, <1>1 DEF OpenNode, RestTypes
    <2> QED
      BY <1>0, <1>v, <2>1, OpenPlanTypes, TypeParts
  <1>2. CASE Follow
    <2>1. OpenPlan(stack) /\ RestTypes'
      BY <1>r, <1>2 DEF Follow, RestTypes
    <2> QED
      BY <1>0, <1>v, <2>1, OpenPlanTypes, TypeParts
  <1>3. CASE TraceCommand
    <2>1. OpenDeferred(stack, "trace") /\ RestTypes'
      BY <1>r, <1>3 DEF TraceCommand, RestTypes
    <2> QED
      BY <1>0, <1>v, <2>1, DeferredTypes, TypeParts
  <1>4. CASE SourceOfRow
    <2>1. OpenDeferred(stack, "source") /\ RestTypes'
      BY <1>r, <1>4 DEF SourceOfRow, RestTypes
    <2> QED
      BY <1>0, <1>v, <2>1, DeferredTypes, TypeParts
  <1>5. ASSUME NEW g \in Tags, SourceOfStruct(g) PROVE TypeOK'
    <2>1. docs[g] \in {"absent", "loading", "found", "failed"}
      BY DEF TypeOK, Answers
    <2>2. CASE docs[g] = "absent"
      <3>1. StartReader(docs, readers, g) /\ pending' = g /\ UNCHANGED <<stack, token, builds>>
        BY <1>5, <2>2 DEF SourceOfStruct
      <3>2. /\ docs' \in [Tags -> {"absent", "loading"} \cup Answers]
            /\ readers' \in [Tags -> Nat] /\ activity' \in Lines
        BY <3>1, ReaderTypes DEF TypeOK
      <3> QED
        BY <1>5, <3>1, <3>2 DEF SourceOfStruct, TypeOK
    <2>3. CASE docs[g] = "loading"
      BY <1>5, <2>3 DEF SourceOfStruct, TypeOK
    <2>4. CASE docs[g] = "found"
      <3>1. OpenDeferred(stack, "source") /\ RestTypes'
        BY <1>r, <1>5, <2>4 DEF SourceOfStruct, RestTypes
      <3> QED
        BY <1>0, <1>v, <3>1, DeferredTypes, TypeParts
    <2>5. CASE docs[g] = "failed"
      BY <1>5, <2>5 DEF SourceOfStruct, TypeOK
    <2> QED
      BY <2>1, <2>2, <2>3, <2>4, <2>5
  <1>6. CASE ResumeGraph
    <2>1. stack # <<>>
      BY <1>0, <1>6, EmptySeq DEF ResumeGraph, Resumable
    <2>2. /\ token' = token + 1 /\ Render(Below(stack), activity)
          /\ builds' = builds /\ RestTypes'
      BY <1>r, <1>6 DEF ResumeGraph, RestTypes
    <2>3. builds' \subseteq Build
      BY <2>2 DEF TypeOK
    <2> QED
      BY <2>1, <2>2, <2>3, PopTypes, TypeParts
  <1>7. CASE PopFrame
    <2>1. stack # <<>>
      BY <1>0, <1>7, EmptySeq DEF PopFrame
    <2>2. /\ token' = token + 1 /\ Render(Below(stack), activity)
          /\ builds' = builds /\ RestTypes'
      BY <1>r, <1>7 DEF PopFrame, RestTypes
    <2>3. builds' \subseteq Build
      BY <2>2 DEF TypeOK
    <2> QED
      BY <2>1, <2>2, <2>3, PopTypes, TypeParts
  <1>8. CASE BackFromOnlyFrame
    <2>1. CASE Push(<<>>, "file", NoTag, NoRoot) /\ UNCHANGED <<step, landing>>
      <3>1. RestTypes'
        BY <1>r, <1>8, <2>1 DEF BackFromOnlyFrame, RestTypes
      <3> QED
        BY <1>0, <1>v, <2>1, <3>1, PushTypes, TypeParts
    <2>2. CASE step > 0 /\ ShowStep(step - 1)
      <3>1. step - 1 \in 0..NSteps
        BY <1>0, <2>2 DEF TypeOK, NoTutorial
      <3>2. PaneTypes' /\ token' \in Nat /\ builds' \subseteq Build /\ RestTypes'
        BY <1>r, <1>8, <2>2, <3>1, ShowStepTypes DEF BackFromOnlyFrame, RestTypes
      <3> QED
        BY <3>2, TypeParts
    <2>3. CASE /\ step' = NoTutorial /\ landing' = FALSE
               /\ UNCHANGED <<navVars, docs, readers, activity>>
      BY <1>8, <2>3 DEF BackFromOnlyFrame, TypeOK
    <2> QED
      BY <1>8, <2>1, <2>2, <2>3 DEF BackFromOnlyFrame
  <1>9. CASE StartTutorial
    <2>1. 0 \in 0..NSteps
      BY <1>0
    <2>2. PaneTypes' /\ token' \in Nat /\ builds' \subseteq Build /\ RestTypes'
      BY <1>r, <1>9, <2>1, ShowStepTypes DEF StartTutorial, RestTypes
    <2> QED
      BY <2>2, TypeParts
  <1>10. CASE PreviewTutorial
    BY <1>10 DEF PreviewTutorial, TypeOK
  <1>11. CASE TutorialNext
    <2>1. PICK i \in 0..NSteps : ShowStep(i) /\ UNCHANGED <<pending, graph, saved, returnDepth>>
      BY <1>0, <1>11 DEF TutorialNext, TypeOK, NoTutorial
    <2>2. PaneTypes' /\ token' \in Nat /\ builds' \subseteq Build /\ RestTypes'
      BY <1>r, <2>1, ShowStepTypes DEF RestTypes
    <2> QED
      BY <2>2, TypeParts
  <1>12. CASE TutorialPrev
    <2>1. step - 1 \in 0..NSteps
      BY <1>0, <1>12 DEF TutorialPrev, TypeOK, NoTutorial
    <2>2. PaneTypes' /\ token' \in Nat /\ builds' \subseteq Build /\ RestTypes'
      BY <1>r, <1>12, <2>1, ShowStepTypes DEF TutorialPrev, RestTypes
    <2> QED
      BY <2>2, TypeParts
  <1>13. CASE ExitTutorial
    BY <1>13 DEF ExitTutorial, TypeOK
  <1>14. CASE OpenGraph
    BY <1>14 DEF OpenGraph, TypeOK
  <1>15. CASE GraphFields
    <2>1. PICK g \in Tags \cup {NoTag} : Push(stack, "struct", g, graph)
      BY <1>0, <1>15 DEF GraphFields
    <2>2. RestTypes'
      BY <1>0, <1>r, <1>15 DEF GraphFields, RestTypes
    <2>3. graph \in Roots \cup {NoRoot}
      BY <1>r DEF RestTypes
    <2> QED
      BY <1>0, <1>v, <2>1, <2>2, <2>3, PushTypes, TypeParts
  <1>16. CASE GraphOpenRows
    <2>1. PICK g \in Tags \cup {NoTag} : Push(stack, "struct", g, graph)
      BY <1>0, <1>16 DEF GraphOpenRows
    <2>2. RestTypes'
      BY <1>0, <1>r, <1>16 DEF GraphOpenRows, RestTypes
    <2>3. graph \in Roots \cup {NoRoot}
      BY <1>r DEF RestTypes
    <2> QED
      BY <1>0, <1>v, <2>1, <2>2, <2>3, PushTypes, TypeParts
  <1>17. CASE GraphLeave
    BY <1>17 DEF GraphLeave, TypeOK
  <1>18. CASE GraphPop
    BY <1>18 DEF GraphPop, TypeOK
  <1> QED
    BY <1>1, <1>2, <1>3, <1>4, <1>5, <1>6, <1>7, <1>8, <1>9, <1>10, <1>11, <1>12,
       <1>13, <1>14, <1>15, <1>16, <1>17, <1>18 DEF User

\* A step of a worker keeps the types.
LEMMA WorkerTypes == TypeOK /\ Workers => TypeOK'
  <1> SUFFICES ASSUME TypeOK, Workers PROVE TypeOK'
    OBVIOUS
  <1> USE DEF navVars, docVars, tourVars, graphVars
  <1>1. ASSUME NEW b \in builds, BuildProgress(b) PROVE TypeOK'
    <2>1. b.token \in Nat
      BY DEF TypeOK, Build
    <2> QED
      BY <1>1, <2>1, LineTypes DEF BuildProgress, TypeOK
  <1>2. ASSUME NEW b \in builds, FrameReady(b) PROVE TypeOK'
    <2>1. CASE b.token # token \/ stack = <<>>
      BY <1>2, <2>1 DEF FrameReady, TypeOK
    <2>2. CASE ~(b.token # token \/ stack = <<>>)
      <3>1. Answer(b) \in Frame
        BY FrameTypes DEF TypeOK
      <3>2. Append(Below(stack), Answer(b)) \in Seq(Frame)
        BY <2>2, <3>1, ReplaceTopProps DEF TypeOK
      <3>3. PaneTypes'
        BY <1>2, <2>2, <3>2, LineTypes, RenderTypes DEF FrameReady
      <3>4. RestTypes' /\ token' \in Nat /\ builds' \subseteq Build
        BY <1>2 DEF FrameReady, RestTypes, TypeOK
      <3> QED
        BY <3>3, <3>4, TypeParts
    <2> QED
      BY <2>1, <2>2
  <1>3. ASSUME NEW g \in Tags, DocProgress(g) PROVE TypeOK'
    BY <1>3, LineTypes DEF DocProgress, TypeOK
  <1>4. ASSUME NEW g \in Tags, NEW a \in Answers, DocDone(g, a) PROVE TypeOK'
    <2> DEFINE d == [docs EXCEPT ![g] = a]
               n == [readers EXCEPT ![g] = @ - 1]
    <2>1. /\ d \in [Tags -> {"absent", "loading"} \cup Answers]
          /\ n \in [Tags -> Nat]
      BY <1>4 DEF DocDone, TypeOK
    <2>p. pending' \in Tags \cup {NoTag}
      BY <1>4 DEF DocDone, ForgetAfter, TypeOK
    <2>2. CASE pending = g /\ a = "found"
      <3>1. token + 1 \in Nat /\ "source" \in Views /\ "source" \in Deferred
        BY DEF TypeOK, Views, Deferred
      <3>2. Append(stack, Waiting("source", token + 1)) \in Seq(Frame)
        BY <3>1, FrameTypes, AppendProps DEF TypeOK
      <3>3. [token |-> token + 1, view |-> "source"] \in Build
        BY <3>1 DEF Build
      <3> QED
        BY <1>4, <2>1, <2>2, <2>p, <3>1, <3>2, <3>3, LineTypes DEF DocDone, TypeOK
    <2>3. CASE ~(pending = g /\ a = "found")
      <3>1. UpdateDoc(stack, Idle, d, n) /\ UNCHANGED <<stack, token, builds>>
        BY <1>4, <2>3 DEF DocDone
      <3>2. CASE stack # <<>> /\ Top(stack).tag # NoTag /\ d[Top(stack).tag] = "absent"
        <4>1. Top(stack) \in Frame
          BY <3>2, EmptySeq, ElementOfSeq DEF Top, TypeOK
        <4>2. Top(stack).tag \in Tags
          BY <3>2, <4>1 DEF Frame
        <4>3. StartReader(d, n, Top(stack).tag)
          BY <3>1, <3>2 DEF UpdateDoc
        <4> QED
          <5>1. /\ docs' \in [Tags -> {"absent", "loading"} \cup Answers]
                /\ readers' \in [Tags -> Nat] /\ activity' \in Lines
            BY <2>1, <4>2, <4>3, ReaderTypes
          <5> QED
            BY <1>4, <2>p, <3>1, <5>1 DEF DocDone, TypeOK
      <3>3. CASE ~(stack # <<>> /\ Top(stack).tag # NoTag /\ d[Top(stack).tag] = "absent")
        BY <1>4, <2>1, <2>p, <3>1, <3>3, LineTypes DEF DocDone, UpdateDoc, TypeOK
      <3> QED
        BY <3>2, <3>3
    <2> QED
      BY <2>2, <2>3
  <1> QED
    BY <1>1, <1>2, <1>3, <1>4 DEF Workers

\* Every variable of the explorer keeps its type, whatever the user and the
\* workers do.
THEOREM TypeCorrect == Spec => []TypeOK
  <1>1. Init => TypeOK
    <2> SUFFICES ASSUME Init PROVE TypeOK
      OBVIOUS
    <2>1. "report" \in Views /\ "report" \in Deferred /\ 1 \in Nat
      BY DEF Views, Deferred
    <2>2. <<Waiting("report", 1)>> \in Seq(Frame) /\ <<>> \in Seq(Frame)
      BY <2>1, FrameTypes, EmptySeq
    <2>3. NSteps \in Nat
      BY ConstantsAssumption, LenProperties DEF NSteps
    <2>4. [token |-> 1, view |-> "report"] \in Build
      BY <2>1 DEF Build
    <2>s. docs \in [Tags -> {"absent", "loading"} \cup Answers] /\ readers \in [Tags -> Nat]
      BY DEF Init
    <2>5. CASE /\ stack = <<Waiting("report", 1)>> /\ token = 1
               /\ builds = {[token |-> 1, view |-> "report"]}
               /\ activity = BuildLine(1)
               /\ step = NoTutorial /\ landing = FALSE
      <3>1. stack \in Seq(Frame) /\ token \in Nat /\ activity \in Lines
        BY <2>1, <2>2, <2>5, LineTypes
      <3>2. builds \subseteq Build /\ step \in {NoTutorial} \cup 0..NSteps /\ landing \in BOOLEAN
        BY <2>4, <2>5
      <3> QED
        BY <2>s, <3>1, <3>2 DEF Init, TypeOK
    <2>6. CASE /\ NSteps > 0
               /\ stack = <<>> /\ token = 0 /\ builds = {} /\ activity = Idle
               /\ step = 0 /\ landing = TRUE
      BY <2>2, <2>3, <2>6, <2>s, LineTypes DEF Init, TypeOK
    <2> QED
      BY <2>5, <2>6 DEF Init
  <1>2. TypeOK /\ [Next]_vars => TypeOK'
    <2>1. TypeOK /\ UNCHANGED vars => TypeOK'
      BY DEF vars, TypeOK
    <2> QED
      BY <2>1, UserTypes, WorkerTypes DEF Next
  <1> QED
    BY <1>1, <1>2, PTL DEF Spec

---------------------------------------------------------------------------
(* How a step moves the stack, the token and the builds.  The handlers     *)
(* differ in what else they do; every argument about late results needs    *)
(* only these five moves.                                                  *)

Shows(s, f) ==
    /\ f \in Frame /\ ~f.waiting /\ f.view # "step" /\ f.by = token + 1
    /\ stack' = Append(s, f) /\ token' = token + 1 /\ builds' = builds

Asks(s, v) ==
    /\ v \in Deferred
    /\ stack' = Append(s, Waiting(v, token + 1)) /\ token' = token + 1
    /\ builds' = builds \cup {[token |-> token + 1, view |-> v]}

Pops ==
    /\ Len(stack) > 1
    /\ stack' = Below(stack) /\ token' = token + 1 /\ builds' = builds

Steps(i) ==
    i \in 1..NSteps /\ stack' = StepStack(i) /\ token' = token /\ builds' = builds

Finishes(b) ==
    /\ b \in builds /\ builds' = builds \ {b} /\ token' = token
    /\ stack' = IF b.token # token \/ stack = <<>> THEN stack
                ELSE Append(Below(stack), Answer(b))

NavMove ==
    \/ UNCHANGED navVars
    \/ \E s \in {<<>>, stack} :
          (\E f \in Frame : Shows(s, f)) \/ (\E v \in Deferred : Asks(s, v))
    \/ Pops
    \/ \E i \in 1..NSteps : Steps(i)
    \/ \E b \in builds : Finishes(b)

LEMMA RenderStack ==
    ASSUME NEW s, NEW line, Render(s, line) PROVE stack' = s
  BY DEF Render

\* A push shows the frame it was given.
LEMMA PushShows ==
    ASSUME TypeOK, NEW s, NEW v \in {"struct", "file"},
           NEW g \in Tags \cup {NoTag}, NEW r \in Roots \cup {NoRoot}, Push(s, v, g, r)
    PROVE  \E f \in Frame : Shows(s, f)
  <1> DEFINE f == Pane(v, token + 1, g, r)
  <1>1. token + 1 \in Nat /\ v \in Views
    BY DEF TypeOK, Views
  <1>2. f \in Frame
    BY <1>1, FrameTypes
  <1>3. ~f.waiting /\ f.view # "step" /\ f.by = token + 1
    BY DEF Pane
  <1>4. stack' = Append(s, f) /\ token' = token + 1 /\ builds' = builds
    BY RenderStack DEF Push
  <1> QED
    BY <1>2, <1>3, <1>4 DEF Shows

LEMMA DeferredAsks ==
    ASSUME NEW s, NEW v \in Deferred, OpenDeferred(s, v) PROVE Asks(s, v)
  BY DEF OpenDeferred, Asks

\* Opening a plan is one of the two.
LEMMA OpenPlanMoves ==
    ASSUME TypeOK, NEW s \in {<<>>, stack}, OpenPlan(s) PROVE NavMove
  <1>1. NoTag \in Tags \cup {NoTag} /\ NoRoot \in Roots \cup {NoRoot} /\ "report" \in Deferred
    BY DEF Deferred
  <1>2. ASSUME NEW g \in Tags \cup {NoTag}, Push(s, "struct", g, NoRoot) PROVE NavMove
    BY <1>1, <1>2, PushShows DEF NavMove
  <1>3. CASE Push(s, "file", NoTag, NoRoot)
    BY <1>1, <1>3, PushShows DEF NavMove
  <1>4. CASE OpenDeferred(s, "report")
    BY <1>1, <1>4, DeferredAsks DEF NavMove
  <1> QED
    BY <1>2, <1>3, <1>4 DEF OpenPlan

LEMMA ShowStepMoves ==
    ASSUME NEW i \in 0..NSteps, ShowStep(i) PROVE NavMove
  <1>1. CASE i = 0
    BY <1>1 DEF ShowStep, NavMove, navVars
  <1>2. CASE i # 0
    <2>1. i \in 1..NSteps
      BY <1>2, ConstantsAssumption, LenProperties DEF NSteps
    <2>2. stack' = StepStack(i) /\ token' = token /\ builds' = builds
      BY <1>2, RenderStack DEF ShowStep
    <2> QED
      BY <2>1, <2>2 DEF NavMove, Steps
  <1> QED
    BY <1>1, <1>2

\* A graph is open only over a frame, so what it hands off to is never alone
\* on the stack: dropping it leaves a frame behind.
GraphOverFrames ==
    /\ graph # NoRoot => stack # <<>>
    /\ returnDepth # 1

\* Every step of the explorer is one of the moves.
LEMMA EveryMove == TypeOK /\ GraphOverFrames /\ [Next]_vars => NavMove
  <1> SUFFICES ASSUME TypeOK, GraphOverFrames, [Next]_vars PROVE NavMove
    OBVIOUS
  <1>0. /\ NoTag \in Tags \cup {NoTag} /\ NoRoot \in Roots \cup {NoRoot}
        /\ {"trace", "source", "report"} \subseteq Deferred
        /\ stack \in {<<>>, stack} /\ <<>> \in {<<>>, stack}
        /\ NSteps \in Nat
    BY ConstantsAssumption, LenProperties DEF Deferred, NSteps
  <1>1. CASE UNCHANGED vars
    BY <1>1 DEF vars, NavMove, navVars
  <1>2. CASE OpenNode \/ Follow
    BY <1>0, <1>2, OpenPlanMoves DEF OpenNode, Follow
  <1>3. CASE TraceCommand \/ SourceOfRow
    <2>1. PICK v \in Deferred : OpenDeferred(stack, v)
      BY <1>0, <1>3 DEF TraceCommand, SourceOfRow
    <2> QED
      BY <1>0, <2>1, DeferredAsks DEF NavMove
  <1>4. ASSUME NEW g \in Tags, SourceOfStruct(g) PROVE NavMove
    <2>1. docs[g] \in {"absent", "loading", "found", "failed"}
      BY DEF TypeOK, Answers
    <2>2. CASE docs[g] = "found"
      <3>1. OpenDeferred(stack, "source")
        BY <1>4, <2>2 DEF SourceOfStruct
      <3> QED
        BY <1>0, <3>1, DeferredAsks DEF NavMove
    <2>3. CASE docs[g] # "found"
      <3>1. UNCHANGED navVars
        BY <1>4, <2>1, <2>3 DEF SourceOfStruct
      <3> QED
        BY <3>1 DEF NavMove
    <2> QED
      BY <2>2, <2>3
  <1>5. CASE ResumeGraph \/ PopFrame
    <2>2. Len(stack) > 1
      BY <1>5 DEF ResumeGraph, PopFrame, Resumable, TypeOK, GraphOverFrames
    <2>3. Pops
      BY <1>5, <2>2, RenderStack DEF ResumeGraph, PopFrame, Pops
    <2> QED
      BY <2>3 DEF NavMove
  <1>6. CASE BackFromOnlyFrame
    <2>1. CASE Push(<<>>, "file", NoTag, NoRoot)
      BY <1>0, <2>1, PushShows DEF NavMove
    <2>2. CASE step > 0 /\ ShowStep(step - 1)
      <3>1. step - 1 \in 0..NSteps
        BY <1>0, <2>2 DEF TypeOK, NoTutorial
      <3> QED
        BY <2>2, <3>1, ShowStepMoves
    <2>3. CASE UNCHANGED navVars
      BY <2>3 DEF NavMove
    <2> QED
      BY <1>6, <2>1, <2>2, <2>3 DEF BackFromOnlyFrame
  <1>7. CASE StartTutorial \/ TutorialNext \/ TutorialPrev
    <2>1. PICK i \in 0..NSteps : ShowStep(i)
      BY <1>0, <1>7 DEF StartTutorial, TutorialNext, TutorialPrev, TypeOK, NoTutorial
    <2> QED
      BY <2>1, ShowStepMoves
  <1>8. CASE PreviewTutorial \/ ExitTutorial \/ OpenGraph \/ GraphLeave \/ GraphPop
    <2>1. UNCHANGED navVars
      BY <1>8 DEF PreviewTutorial, ExitTutorial, OpenGraph, GraphLeave, GraphPop
    <2> QED
      BY <2>1 DEF NavMove
  <1>9. CASE GraphFields \/ GraphOpenRows
    <2>1. PICK g \in Tags \cup {NoTag} : Push(stack, "struct", g, graph)
      BY <1>0, <1>9 DEF GraphFields, GraphOpenRows
    <2>2. graph \in Roots \cup {NoRoot}
      BY DEF TypeOK
    <2> QED
      BY <1>0, <2>1, <2>2, PushShows DEF NavMove
  <1>10. ASSUME NEW b \in builds, BuildProgress(b) PROVE NavMove
    BY <1>10 DEF BuildProgress, NavMove
  <1>11. ASSUME NEW b \in builds, FrameReady(b) PROVE NavMove
    <2>1. Finishes(b)
      BY <1>11, RenderStack DEF FrameReady, Finishes
    <2> QED
      BY <2>1 DEF NavMove
  <1>12. ASSUME NEW g \in Tags, DocProgress(g) PROVE NavMove
    BY <1>12 DEF DocProgress, NavMove
  <1>13. ASSUME NEW g \in Tags, NEW a \in Answers, DocDone(g, a) PROVE NavMove
    <2>1. CASE pending = g /\ a = "found"
      <3>1. Asks(stack, "source")
        BY <1>0, <1>13, <2>1 DEF DocDone, Asks
      <3> QED
        BY <1>0, <3>1 DEF NavMove
    <2>2. CASE ~(pending = g /\ a = "found")
      BY <1>13, <2>2 DEF DocDone, NavMove
    <2> QED
      BY <2>1, <2>2
  <1> QED
    BY <1>1, <1>2, <1>3, <1>4, <1>5, <1>6, <1>7, <1>8, <1>9, <1>10, <1>11, <1>12,
       <1>13 DEF Next, User, Workers

---------------------------------------------------------------------------
(* The pane is never emptied                                               *)

LEMMA MoveNeverEmpties ==
    ASSUME TypeOK, NavMove, stack # <<>> PROVE stack' # <<>>
  <1>0. stack \in Seq(Frame) /\ <<>> \in Seq(Frame) /\ token + 1 \in Nat
    BY EmptySeq DEF TypeOK
  <1>1. ASSUME NEW s \in {<<>>, stack}, NEW f \in Frame, Shows(s, f) PROVE stack' # <<>>
    BY <1>0, <1>1, AppendProps DEF Shows
  <1>2. ASSUME NEW s \in {<<>>, stack}, NEW v \in Deferred, Asks(s, v) PROVE stack' # <<>>
    <2>1. Waiting(v, token + 1) \in Frame
      <3>1. v \in Views
        BY DEF Views
      <3> QED
        BY <1>0, <3>1, FrameTypes
    <2> QED
      BY <1>0, <1>2, <2>1, AppendProps DEF Asks
  <1>3. CASE Pops
    <2>1. Len(stack') = Len(stack) - 1 /\ Len(stack) \in Nat
      BY <1>0, <1>3, BelowProps DEF Pops
    <2>2. Len(stack') > 0
      BY <1>3, <2>1 DEF Pops
    <2> QED
      BY <2>2, EmptySeq
  <1>4. ASSUME NEW i \in 1..NSteps, Steps(i) PROVE stack' # <<>>
    BY <1>4, StepStackProps DEF Steps
  <1>5. ASSUME NEW b \in builds, Finishes(b) PROVE stack' # <<>>
    <2>1. Answer(b) \in Frame
      BY FrameTypes DEF TypeOK
    <2> QED
      BY <1>0, <1>5, <2>1, ReplaceTopProps DEF Finishes
  <1> QED
    BY <1>1, <1>2, <1>3, <1>4, <1>5 DEF NavMove, navVars

LEMMA GraphStep ==
    TypeOK /\ GraphOverFrames /\ [Next]_vars => GraphOverFrames'
  <1> SUFFICES ASSUME TypeOK, GraphOverFrames, [Next]_vars PROVE GraphOverFrames'
    OBVIOUS
  <1>1. stack # <<>> => stack' # <<>>
    BY EveryMove, MoveNeverEmpties
  <1>2. stack # <<>> => Len(stack) \in Nat \ {0}
    BY EmptySeq, LenProperties DEF TypeOK
  <1>3. graph' # NoRoot => stack # <<>>
    <2>1. graph' # NoRoot => graph # NoRoot \/ OpenGraph \/ ResumeGraph
      BY DEF Next, User, Workers, vars, graphVars, OpenNode, Follow, TraceCommand,
         SourceOfRow, SourceOfStruct, PopFrame, BackFromOnlyFrame, StartTutorial,
         PreviewTutorial, TutorialNext, TutorialPrev, ExitTutorial, GraphFields,
         GraphOpenRows, GraphLeave, GraphPop, BuildProgress, FrameReady, DocProgress,
         DocDone
    <2>2. OpenGraph => stack # <<>>
      BY DEF OpenGraph, Browsing
    <2>3. ResumeGraph => stack # <<>>
      BY EmptySeq DEF ResumeGraph, Resumable
    <2> QED
      BY <2>1, <2>2, <2>3 DEF GraphOverFrames
  <1>4. returnDepth' # 1
    <2>1. \/ returnDepth' = returnDepth \/ returnDepth' = 0
          \/ graph # NoRoot /\ returnDepth' = Len(stack) + 1
      BY DEF Next, User, Workers, vars, graphVars, OpenNode, Follow, TraceCommand,
         SourceOfRow, SourceOfStruct, ResumeGraph, PopFrame, BackFromOnlyFrame,
         StartTutorial, PreviewTutorial, TutorialNext, TutorialPrev, ExitTutorial,
         OpenGraph, GraphFields, GraphOpenRows, GraphLeave, GraphPop, BuildProgress,
         FrameReady, DocProgress, DocDone
    <2> QED
      BY <1>2, <2>1 DEF GraphOverFrames
  <1> QED
    BY <1>1, <1>3, <1>4 DEF GraphOverFrames

LEMMA GraphsOverFrames == Spec => []GraphOverFrames
  <1>1. Init => GraphOverFrames
    BY DEF Init, GraphOverFrames
  <1> QED
    BY <1>1, GraphStep, TypeCorrect, PTL DEF Spec

\* Backing out, and everything else, leaves a frame on screen once there is one.
THEOREM BackNeverEmpties == Spec => NeverEmptied
  <1>1. TypeOK /\ GraphOverFrames /\ [Next]_vars => [stack # <<>> => stack' # <<>>]_vars
    BY EveryMove, MoveNeverEmpties
  <1> QED
    BY <1>1, TypeCorrect, GraphsOverFrames, PTL DEF Spec, NeverEmptied

---------------------------------------------------------------------------
(* A result reaches only the frame that waits for it                       *)

\* The token alone does not make the two properties inductive: a later step
\* may uncover an older frame or finish an older build, and those must not be
\* mistaken for the latest navigation's.
NavInv == TypeOK /\ GraphOverFrames /\ TokensUsedOnce /\ CurrentBuildOwnsTop /\ CurrentWaitIsBuilt

LEMMA NavFacts ==
    ASSUME NavInv
    PROVE  /\ stack \in Seq(Frame) /\ token \in Nat /\ builds \subseteq Build
           /\ \A i \in 1..Len(stack) : stack[i] \in Frame /\ stack[i].by <= token
           /\ \A b \in builds : b.token <= token
           /\ \A b, c \in builds : b.token = c.token => b = c
  <1>1. stack \in Seq(Frame) /\ token \in Nat /\ builds \subseteq Build
    BY DEF NavInv, TypeOK
  <1>2. \A i \in 1..Len(stack) : stack[i] \in Frame
    BY <1>1, ElementOfSeq
  <1> QED
    BY <1>1, <1>2 DEF NavInv, TokensUsedOnce

\* Pushing a frame that may carry the next number keeps the numbers.
LEMMA AppendNumbers ==
    ASSUME NavInv, NEW s \in {<<>>, stack}, NEW f \in Frame, f.by <= token + 1
    PROVE  LET n == Append(s, f)
           IN  /\ n # <<>> /\ Top(n) = f
               /\ \A i \in 1..Len(n) : n[i].by <= token + 1
  <1>1. /\ s \in Seq(Frame) /\ Len(s) \in Nat
        /\ \A i \in 1..Len(s) : s[i] \in Frame /\ s[i].by <= token
    <2>1. CASE s = <<>>
      BY <2>1, EmptySeq
    <2>2. CASE s = stack
      BY <2>2, NavFacts, LenProperties
    <2> QED
      BY <2>1, <2>2
  <1>2. /\ Len(Append(s, f)) = Len(s) + 1 /\ Top(Append(s, f)) = f
        /\ \A i \in 1..Len(s) : Append(s, f)[i] = s[i]
        /\ Append(s, f) # <<>>
    BY <1>1, AppendProps
  <1>3. ASSUME NEW i \in 1..Len(Append(s, f)) PROVE Append(s, f)[i].by <= token + 1
    <2>1. CASE i \in 1..Len(s)
      <3>1. s[i].by \in Nat /\ s[i].by <= token /\ token \in Nat
        BY <1>1, <2>1, NavFacts DEF Frame
      <3> QED
        BY <1>2, <2>1, <3>1
    <2>2. CASE i = Len(Append(s, f))
      BY <1>2, <2>2 DEF Top
    <2> QED
      BY <1>1, <1>2, <2>1, <2>2
  <1> QED
    BY <1>2, <1>3

LEMMA ShowsKeeps ==
    ASSUME NavInv, NEW s \in {<<>>, stack}, NEW f \in Frame, Shows(s, f)
    PROVE  TokensUsedOnce' /\ CurrentBuildOwnsTop' /\ CurrentWaitIsBuilt'
  <1>1. token \in Nat /\ \A b \in builds : b.token \in Nat /\ b.token <= token
    BY NavFacts DEF Build
  <1>2. Top(stack') = f /\ \A i \in 1..Len(stack') : stack'[i].by <= token'
    <2>1. f.by <= token + 1 /\ stack' = Append(s, f) /\ token' = token + 1
      BY <1>1 DEF Shows
    <2> QED
      BY <2>1, AppendNumbers
  <1>3. TokensUsedOnce'
    BY <1>1, <1>2, NavFacts DEF Shows, TokensUsedOnce
  <1>4. CurrentBuildOwnsTop'
    BY <1>1 DEF Shows, CurrentBuildOwnsTop
  <1>5. CurrentWaitIsBuilt'
    BY <1>2 DEF Shows, CurrentWaitIsBuilt
  <1> QED
    BY <1>3, <1>4, <1>5

LEMMA AsksKeeps ==
    ASSUME NavInv, NEW s \in {<<>>, stack}, NEW v \in Deferred, Asks(s, v)
    PROVE  TokensUsedOnce' /\ CurrentBuildOwnsTop' /\ CurrentWaitIsBuilt'
  <1> DEFINE f == Waiting(v, token + 1)
             b0 == [token |-> token + 1, view |-> v]
  <1>1. token \in Nat /\ \A b \in builds : b.token \in Nat /\ b.token <= token
    BY NavFacts DEF Build
  <1>2. f \in Frame /\ f.by = token + 1 /\ f.view = v
    <2>1. token + 1 \in Nat /\ v \in Views
      BY <1>1 DEF Views
    <2>2. f \in Frame
      BY <2>1, FrameTypes
    <2> QED
      BY <2>2 DEF Waiting
  <1>3. /\ stack' # <<>> /\ Top(stack') = f
        /\ \A i \in 1..Len(stack') : stack'[i].by <= token'
    <2>1. f.by <= token + 1 /\ stack' = Append(s, f) /\ token' = token + 1
      BY <1>1, <1>2 DEF Asks
    <2> HIDE DEF f
    <2> QED
      BY <1>2, <2>1, AppendNumbers
  <1>4. builds' = builds \cup {b0} /\ token' = token + 1
    BY DEF Asks
  <1>5. TokensUsedOnce'
    BY <1>1, <1>3, <1>4, NavFacts DEF TokensUsedOnce
  <1>6. CurrentBuildOwnsTop'
    BY <1>1, <1>3, <1>4 DEF CurrentBuildOwnsTop
  <1>7. CurrentWaitIsBuilt'
    BY <1>2, <1>3, <1>4 DEF CurrentWaitIsBuilt
  <1> QED
    BY <1>5, <1>6, <1>7

LEMMA PopsKeeps ==
    ASSUME NavInv, Pops
    PROVE  TokensUsedOnce' /\ CurrentBuildOwnsTop' /\ CurrentWaitIsBuilt'
  <1>1. token \in Nat /\ \A b \in builds : b.token \in Nat /\ b.token <= token
    BY NavFacts DEF Build
  <1>2. \A i \in 1..Len(stack') : stack'[i].by \in Nat /\ stack'[i].by <= token
    <2>1. /\ Len(stack') = Len(stack) - 1 /\ Len(stack) \in Nat
          /\ \A i \in 1..(Len(stack) - 1) : stack'[i] = stack[i]
      <3>1. stack \in Seq(Frame) /\ stack # <<>> /\ stack' = Below(stack)
        BY NavFacts DEF Pops
      <3> QED
        BY <3>1, BelowProps
    <2> QED
      BY <2>1, NavFacts DEF Frame
  <1>3. TokensUsedOnce'
    BY <1>1, <1>2, NavFacts DEF Pops, TokensUsedOnce
  <1>4. CurrentBuildOwnsTop'
    BY <1>1 DEF Pops, CurrentBuildOwnsTop
  <1>5. CurrentWaitIsBuilt'
    <2> SUFFICES ASSUME stack' # <<>> PROVE Top(stack').by # token'
      BY DEF CurrentWaitIsBuilt
    <2>1. Len(stack') \in 1..Len(stack')
      <3>1. stack' \in Seq(Frame)
        BY NavFacts, BelowProps DEF Pops
      <3> QED
        BY <3>1, EmptySeq, LenProperties
    <2> QED
      BY <1>1, <1>2, <2>1 DEF Top, Pops
  <1> QED
    BY <1>3, <1>4, <1>5

LEMMA StepsKeeps ==
    ASSUME NavInv, NEW i \in 1..NSteps, Steps(i)
    PROVE  TokensUsedOnce' /\ CurrentBuildOwnsTop' /\ CurrentWaitIsBuilt'
  <1>1. /\ stack' # <<>> /\ Len(stack') = i
        /\ \A j \in 1..i : stack'[j] = Pane("step", 0, StepTag[j], NoRoot)
    BY StepStackProps DEF Steps
  <1>2. Top(stack').view = "step" /\ ~Top(stack').waiting
    BY <1>1 DEF Top, Pane
  <1>3. token' = token /\ token \in Nat /\ builds' = builds
    BY NavFacts DEF Steps
  <1>4. TokensUsedOnce'
    BY <1>1, <1>3, NavFacts DEF TokensUsedOnce, Pane
  <1> QED
    BY <1>1, <1>2, <1>3, <1>4 DEF CurrentBuildOwnsTop, CurrentWaitIsBuilt

LEMMA FinishesKeeps ==
    ASSUME NavInv, NEW b \in builds, Finishes(b)
    PROVE  TokensUsedOnce' /\ CurrentBuildOwnsTop' /\ CurrentWaitIsBuilt'
  <1>1. b \in Build /\ builds' = builds \ {b} /\ token' = token
    BY NavFacts DEF Finishes
  <1>2. CASE b.token # token \/ stack = <<>>
    <2>1. stack' = stack
      BY <1>2 DEF Finishes
    <2>2. TokensUsedOnce'
      BY <1>1, <2>1, NavFacts DEF TokensUsedOnce
    <2>3. CurrentBuildOwnsTop'
      BY <1>1, <2>1 DEF NavInv, CurrentBuildOwnsTop
    <2>4. CurrentWaitIsBuilt'
      BY <1>1, <1>2, <2>1 DEF NavInv, CurrentWaitIsBuilt
    <2> QED
      BY <2>2, <2>3, <2>4
  <1>3. CASE ~(b.token # token \/ stack = <<>>)
    <2>1. Answer(b) \in Frame /\ ~Answer(b).waiting /\ Answer(b).by = token
      BY <1>1, <1>3, FrameTypes DEF Answer, Pane
    <2>2. /\ stack' # <<>> /\ Len(stack') = Len(stack) /\ Len(stack) \in Nat
          /\ Top(stack') = Answer(b)
          /\ \A i \in 1..(Len(stack) - 1) : stack'[i] = stack[i]
      BY <1>3, <2>1, NavFacts, ReplaceTopProps, LenProperties DEF Finishes
    <2>3. \A i \in 1..Len(stack') : stack'[i].by <= token
      <3> SUFFICES ASSUME NEW i \in 1..Len(stack') PROVE stack'[i].by <= token
        OBVIOUS
      <3>1. CASE i \in 1..(Len(stack) - 1)
        BY <2>2, <3>1, NavFacts
      <3>2. CASE i = Len(stack')
        BY <2>1, <2>2, <3>2, NavFacts DEF Top
      <3> QED
        BY <2>2, <3>1, <3>2
    <2>4. \A c \in builds' : c.token # token
      BY <1>1, <1>3, NavFacts
    <2>5. TokensUsedOnce'
      BY <1>1, <2>3, NavFacts DEF TokensUsedOnce
    <2> QED
      BY <1>1, <2>1, <2>2, <2>4, <2>5 DEF CurrentBuildOwnsTop, CurrentWaitIsBuilt
  <1> QED
    BY <1>2, <1>3

\* Whatever the user and the workers do, a build that would still be shown has
\* its own waiting frame on screen or a tutorial step, and the latest waiting
\* frame has its build running.
THEOREM ResultsReachTheirFrame == Spec => []ResultsOwned
  <1>1. Init => TokensUsedOnce /\ CurrentBuildOwnsTop /\ CurrentWaitIsBuilt
    <2> SUFFICES ASSUME Init
                 PROVE  TokensUsedOnce /\ CurrentBuildOwnsTop /\ CurrentWaitIsBuilt
      OBVIOUS
    <2>1. CASE stack = <<Waiting("report", 1)>> /\ token = 1
               /\ builds = {[token |-> 1, view |-> "report"]}
      BY <2>1 DEF TokensUsedOnce, CurrentBuildOwnsTop, CurrentWaitIsBuilt, Waiting, Top
    <2>2. CASE stack = <<>> /\ token = 0 /\ builds = {}
      BY <2>2 DEF TokensUsedOnce, CurrentBuildOwnsTop, CurrentWaitIsBuilt
    <2> QED
      BY <2>1, <2>2 DEF Init
  <1>2. NavInv /\ NavMove => (TokensUsedOnce /\ CurrentBuildOwnsTop /\ CurrentWaitIsBuilt)'
    <2> SUFFICES ASSUME NavInv, NavMove
                 PROVE  TokensUsedOnce' /\ CurrentBuildOwnsTop' /\ CurrentWaitIsBuilt'
      OBVIOUS
    <2>1. CASE UNCHANGED navVars
      BY <2>1 DEF navVars, NavInv, TokensUsedOnce, CurrentBuildOwnsTop, CurrentWaitIsBuilt
    <2> QED
      BY <2>1, ShowsKeeps, AsksKeeps, PopsKeeps, StepsKeeps, FinishesKeeps DEF NavMove
  <1>3. /\ TypeOK /\ GraphOverFrames /\ TokensUsedOnce /\ CurrentBuildOwnsTop
        /\ CurrentWaitIsBuilt /\ [Next]_vars
        => (TokensUsedOnce /\ CurrentBuildOwnsTop /\ CurrentWaitIsBuilt)'
    BY <1>2, EveryMove DEF NavInv
  <1>4. TokensUsedOnce /\ CurrentBuildOwnsTop /\ CurrentWaitIsBuilt => ResultsOwned
    BY DEF ResultsOwned
  <1> QED
    BY <1>1, <1>3, <1>4, TypeCorrect, GraphsOverFrames, PTL DEF Spec
---------------------------------------------------------------------------
(* Documentation is fetched once, and every request is served              *)

LEMMA LinesApart ==
    /\ \A g : DocLine(g) # Idle
    /\ \A g, t : DocLine(g) # BuildLine(t)
    /\ \A g, h : DocLine(g) = DocLine(h) => g = h
  BY DEF DocLine, Idle, BuildLine

\* What a step may do to the documentation: the frame that is shown now is
\* looked up, ...
Rendered ==
    /\ pending' = pending
    /\ \E line \in {Idle, activity} : UpdateDoc(stack', line, docs, readers)

\* ... nothing, with a frame on screen that has no object if it is another, ...
NoObject == stack' = stack \/ (stack' # <<>> /\ Top(stack').tag = NoTag)

Quiet ==
    /\ UNCHANGED <<docs, readers>> /\ NoObject
    /\ pending' = pending \/ (pending' \in Tags /\ docs[pending'] = "loading")
    /\ \/ activity' = activity \/ (\E t : activity' = BuildLine(t))
       \/ \E g \in Tags : readers[g] > 0 /\ activity' = DocLine(g)

\* ... a request for source starts the worker of its tag, ...
Requested(g) ==
    /\ docs[g] = "absent" /\ StartReader(docs, readers, g)
    /\ pending' = g /\ stack' = stack

\* ... or a worker answers.
Answered(g, a) ==
    /\ readers[g] > 0 /\ pending' = ForgetAfter(g) /\ NoObject
    /\ LET d == [docs EXCEPT ![g] = a]
           n == [readers EXCEPT ![g] = @ - 1]
       IN  \/ stack' = stack /\ UpdateDoc(stack, Idle, d, n)
          \/ /\ stack' # <<>> /\ Top(stack').tag = NoTag
             /\ docs' = d /\ readers' = n /\ \E t : activity' = BuildLine(t)

DocMove ==
    \/ Rendered \/ Quiet
    \/ \E g \in Tags : Requested(g) \/ \E a \in Answers : Answered(g, a)

\* A deferred frame has no object.
LEMMA DeferredIsQuiet ==
    ASSUME TypeOK, NEW s \in {<<>>, stack}, NEW v \in Deferred, OpenDeferred(s, v),
           pending' = pending
    PROVE  Quiet
  <1>1. token + 1 \in Nat /\ v \in Views
    BY DEF TypeOK, Views
  <1>2. stack \in Seq(Frame) /\ <<>> \in Seq(Frame)
    BY EmptySeq DEF TypeOK
  <1>3. s \in Seq(Frame)
    BY <1>2
  <1>4. Waiting(v, token + 1) \in Frame
    BY <1>1, FrameTypes
  <1>5. stack' # <<>> /\ Top(stack') = Waiting(v, token + 1)
    BY <1>3, <1>4, AppendProps DEF OpenDeferred
  <1> QED
    BY <1>5 DEF OpenDeferred, Quiet, NoObject, Waiting

LEMMA PlanIsDocMove ==
    ASSUME TypeOK, NEW s \in {<<>>, stack}, OpenPlan(s), pending' = pending
    PROVE  DocMove
  <1>1. ASSUME NEW v, NEW g, NEW r, Push(s, v, g, r) PROVE Rendered
    BY <1>1 DEF Push, Render, Rendered
  <1>2. "report" \in Deferred
    BY DEF Deferred
  <1> QED
    BY <1>1, <1>2, DeferredIsQuiet DEF OpenPlan, DocMove

\* Every step is one of these.
LEMMA EveryDocMove == TypeOK /\ [Next]_vars => DocMove
  <1> SUFFICES ASSUME TypeOK, [Next]_vars PROVE DocMove
    OBVIOUS
  <1> USE DEF navVars, docVars
  <1>1. CASE UNCHANGED vars \/ PreviewTutorial \/ ExitTutorial \/ OpenGraph \/ GraphLeave \/ GraphPop
    <2>1. UNCHANGED <<stack, docs, readers, pending, activity>>
      BY <1>1 DEF vars, PreviewTutorial, ExitTutorial, OpenGraph, GraphLeave, GraphPop
    <2> QED
      BY <2>1 DEF DocMove, Quiet, NoObject
  <1>2. CASE OpenNode \/ Follow
    BY <1>2, PlanIsDocMove DEF OpenNode, Follow
  <1>3. CASE TraceCommand \/ SourceOfRow
    <2>1. PICK v \in Deferred : OpenDeferred(stack, v) /\ pending' = pending
      BY <1>3 DEF TraceCommand, SourceOfRow, Deferred
    <2> QED
      BY <2>1, DeferredIsQuiet DEF DocMove
  <1>4. ASSUME NEW g \in Tags, SourceOfStruct(g) PROVE DocMove
    <2>1. docs[g] \in {"absent", "loading", "found", "failed"}
      BY DEF TypeOK, Answers
    <2>2. CASE docs[g] = "absent"
      BY <1>4, <2>2 DEF SourceOfStruct, DocMove, Requested
    <2>3. CASE docs[g] = "loading"
      BY <1>4, <2>3 DEF SourceOfStruct, DocMove, Quiet, NoObject
    <2>4. CASE docs[g] = "found"
      <3>1. OpenDeferred(stack, "source") /\ pending' = pending /\ "source" \in Deferred
        BY <1>4, <2>4 DEF SourceOfStruct, Deferred
      <3> QED
        BY <3>1, DeferredIsQuiet DEF DocMove
    <2>5. CASE docs[g] = "failed"
      BY <1>4, <2>5 DEF SourceOfStruct, DocMove, Quiet, NoObject
    <2> QED
      BY <2>1, <2>2, <2>3, <2>4, <2>5
  <1>5. CASE ResumeGraph \/ PopFrame \/ GraphFields \/ GraphOpenRows
    BY <1>5 DEF ResumeGraph, PopFrame, GraphFields, GraphOpenRows, Push, Render, DocMove, Rendered
  <1>6. ASSUME NEW i, ShowStep(i), pending' = pending PROVE DocMove
    BY <1>6 DEF ShowStep, Render, DocMove, Rendered, Quiet, NoObject
  <1>7. CASE BackFromOnlyFrame
    BY <1>6, <1>7 DEF BackFromOnlyFrame, Push, Render, DocMove, Rendered, Quiet, NoObject
  <1>8. CASE StartTutorial \/ TutorialNext \/ TutorialPrev
    BY <1>6, <1>8 DEF StartTutorial, TutorialNext, TutorialPrev
  <1>9. ASSUME NEW b \in builds, BuildProgress(b) \/ FrameReady(b) PROVE DocMove
    BY <1>9 DEF BuildProgress, FrameReady, Render, DocMove, Rendered, Quiet, NoObject
  <1>10. ASSUME NEW g \in Tags, DocProgress(g) PROVE DocMove
    BY <1>10 DEF DocProgress, DocMove, Quiet, NoObject
  <1>11. ASSUME NEW g \in Tags, NEW a \in Answers, DocDone(g, a) PROVE Answered(g, a)
    <2>1. CASE pending = g /\ a = "found"
      <3>1. token + 1 \in Nat /\ "source" \in Views /\ stack \in Seq(Frame)
        BY DEF TypeOK, Views, Deferred
      <3>2. Waiting("source", token + 1) \in Frame
        BY <3>1, FrameTypes
      <3>3. stack' = Append(stack, Waiting("source", token + 1))
        BY <1>11, <2>1 DEF DocDone
      <3>4. stack' # <<>> /\ Top(stack').tag = NoTag
        BY <3>1, <3>2, <3>3, AppendProps DEF Waiting
      <3> QED
        BY <1>11, <2>1, <3>4 DEF DocDone, Answered, NoObject
    <2>2. CASE ~ (pending = g /\ a = "found")
      BY <1>11, <2>2 DEF DocDone, Answered, NoObject
    <2> QED
      BY <2>1, <2>2
  <1>12. CASE Next
    BY <1>1, <1>2, <1>3, <1>4, <1>5, <1>7, <1>8, <1>9, <1>10, <1>11, <1>12
    DEF Next, User, Workers, DocMove
  <1> QED
    BY <1>1, <1>12

\* A look-up of the frame on screen keeps what is known of the workers.
LEMMA UpdateKeeps ==
    ASSUME TypeOK', NEW line, NEW d \in [Tags -> {"absent", "loading"} \cup Answers],
           NEW n \in [Tags -> Nat],
           UpdateDoc(stack', line, d, n),
           \A g \in Tags : n[g] = IF d[g] = "loading" THEN 1 ELSE 0,
           \A g \in Tags : line = DocLine(g) => d[g] = "loading",
           pending' # NoTag => d[pending'] = "loading"
    PROVE  DocsServed'
  <1>1. stack' # <<>> => Top(stack').tag \in Tags \cup {NoTag}
    <2> SUFFICES ASSUME stack' # <<>> PROVE Top(stack') \in Frame
      BY DEF Frame
    <2> QED
      BY EmptySeq, ElementOfSeq DEF TypeOK, Top
  <1>2. CASE stack' # <<>> /\ Top(stack').tag # NoTag /\ d[Top(stack').tag] = "absent"
    <2>1. PICK g \in Tags : g = Top(stack').tag /\ d[g] = "absent" /\ StartReader(d, n, g)
      BY <1>1, <1>2 DEF UpdateDoc
    <2>2. docs' = [d EXCEPT ![g] = "loading"] /\ readers' = [n EXCEPT ![g] = @ + 1]
          /\ activity' = DocLine(g)
      BY <2>1 DEF StartReader
    <2>3. FetchedOncePerTag'
      BY <2>1, <2>2 DEF FetchedOncePerTag
    <2>4. PendingHasReader' /\ TopDocRequested' /\ DocLineHonest'
      BY <2>1, <2>2, LinesApart DEF PendingHasReader, TopDocRequested, DocLineHonest, TypeOK
    <2> QED
      BY <2>3, <2>4 DEF DocsServed
  <1>3. CASE ~ (stack' # <<>> /\ Top(stack').tag # NoTag /\ d[Top(stack').tag] = "absent")
    BY <1>3 DEF UpdateDoc, DocsServed, FetchedOncePerTag, PendingHasReader, TopDocRequested,
                DocLineHonest
  <1> QED
    BY <1>2, <1>3

LEMMA DocsNext ==
    TypeOK /\ TypeOK' /\ DocsServed /\ [Next]_vars => DocsServed'
  <1> SUFFICES ASSUME TypeOK, TypeOK', DocsServed, DocMove PROVE DocsServed'
    BY EveryDocMove
  <1>0. /\ docs \in [Tags -> {"absent", "loading"} \cup Answers] /\ readers \in [Tags -> Nat]
        /\ \A g \in Tags : readers[g] = IF docs[g] = "loading" THEN 1 ELSE 0
        /\ \A g \in Tags : activity = DocLine(g) => docs[g] = "loading"
        /\ pending # NoTag => docs[pending] = "loading"
        /\ pending \in Tags \cup {NoTag}
    BY DEF TypeOK, DocsServed, FetchedOncePerTag, PendingHasReader, DocLineHonest
  <1>1. CASE Rendered
    <2>1. PICK line \in {Idle, activity} : UpdateDoc(stack', line, docs, readers)
      BY <1>1 DEF Rendered
    <2>2. \A g \in Tags : line = DocLine(g) => docs[g] = "loading"
      BY <1>0, <2>1, LinesApart
    <2>3. pending' # NoTag => docs[pending'] = "loading"
      BY <1>0, <1>1 DEF Rendered
    <2> QED
      BY <1>0, <2>1, <2>2, <2>3, UpdateKeeps
  <1>2. CASE Quiet
    <2>1. UNCHANGED <<docs, readers>>
      BY <1>2 DEF Quiet
    <2>2. FetchedOncePerTag' /\ PendingHasReader'
      BY <1>0, <1>2, <2>1 DEF Quiet, FetchedOncePerTag, PendingHasReader
    <2>3. TopDocRequested'
      BY <1>2, <2>1 DEF Quiet, NoObject, DocsServed, TopDocRequested
    <2>4. DocLineHonest'
      <3>1. CASE \E t : activity' = BuildLine(t)
        BY <3>1, LinesApart DEF DocLineHonest
      <3>2. CASE activity' = activity
        BY <1>0, <2>1, <3>2 DEF DocLineHonest
      <3>3. CASE \E g \in Tags : readers[g] > 0 /\ activity' = DocLine(g)
        <4>1. PICK g \in Tags : readers[g] > 0 /\ activity' = DocLine(g)
          BY <3>3
        <4>2. docs'[g] = "loading"
          BY <1>0, <2>1, <4>1
        <4> QED
          BY <4>1, <4>2, LinesApart DEF DocLineHonest
      <3> QED
        BY <1>2, <3>1, <3>2, <3>3 DEF Quiet
    <2> QED
      BY <2>2, <2>3, <2>4 DEF DocsServed
  <1>3. ASSUME NEW g \in Tags, Requested(g) PROVE DocsServed'
    <2>1. /\ docs[g] = "absent" /\ docs' = [docs EXCEPT ![g] = "loading"]
          /\ readers' = [readers EXCEPT ![g] = @ + 1] /\ activity' = DocLine(g)
          /\ pending' = g /\ stack' = stack
      BY <1>3 DEF Requested, StartReader
    <2>2. FetchedOncePerTag'
      BY <1>0, <2>1 DEF FetchedOncePerTag
    <2>3. PendingHasReader' /\ DocLineHonest'
      BY <1>0, <2>1, LinesApart DEF PendingHasReader, DocLineHonest
    <2>4. TopDocRequested'
      <3>1. stack # <<>> => Top(stack).tag \in Tags \cup {NoTag}
        <4>1. stack # <<>> => Top(stack) \in Frame
          BY EmptySeq, ElementOfSeq DEF TypeOK, Top
        <4> QED
          BY <4>1 DEF Frame
      <3> QED
        BY <1>0, <2>1, <3>1 DEF DocsServed, TopDocRequested
    <2> QED
      BY <2>2, <2>3, <2>4 DEF DocsServed
  <1>4. ASSUME NEW g \in Tags, NEW a \in Answers, Answered(g, a) PROVE DocsServed'
    <2> DEFINE d == [docs EXCEPT ![g] = a]
               n == [readers EXCEPT ![g] = @ - 1]
    <2>1. docs[g] = "loading" /\ readers[g] = 1 /\ a # "loading"
      BY <1>0, <1>4 DEF Answered, Answers
    <2>2. /\ d \in [Tags -> {"absent", "loading"} \cup Answers] /\ n \in [Tags -> Nat]
          /\ \A h \in Tags : n[h] = IF d[h] = "loading" THEN 1 ELSE 0
      BY <1>0, <2>1
    <2>3. pending' # NoTag => d[pending'] = "loading"
      BY <1>0, <1>4, ConstantsAssumption DEF Answered, ForgetAfter
    <2>4. CASE stack' = stack /\ UpdateDoc(stack, Idle, d, n)
      <3>1. \A h \in Tags : Idle = DocLine(h) => d[h] = "loading"
        BY LinesApart
      <3> HIDE DEF d, n
      <3>2. UpdateDoc(stack', Idle, d, n)
        BY <2>4
      <3> QED
        BY <2>2, <2>3, <3>1, <3>2, UpdateKeeps
    <2>5. CASE /\ stack' # <<>> /\ Top(stack').tag = NoTag
               /\ docs' = d /\ readers' = n /\ \E t : activity' = BuildLine(t)
      <3> HIDE DEF d, n
      <3> QED
        BY <2>2, <2>3, <2>5, LinesApart
        DEF DocsServed, FetchedOncePerTag, PendingHasReader, TopDocRequested, DocLineHonest
    <2> QED
      BY <1>4, <2>4, <2>5 DEF Answered
  <1> QED
    BY <1>1, <1>2, <1>3, <1>4 DEF DocMove

\* struct_doc's records agree with its workers and with the screen, in whatever
\* order frames are shown and workers answer.
THEOREM RecordsAgree == Spec => []DocsServed
  <1>1. TypeOK /\ Init => DocsServed
    <2> SUFFICES ASSUME TypeOK, Init PROVE DocsServed
      OBVIOUS
    <2>1. FetchedOncePerTag /\ PendingHasReader
      BY DEF Init, FetchedOncePerTag, PendingHasReader
    <2>2. TopDocRequested
      BY DEF Init, TopDocRequested, Top, Waiting
    <2>3. DocLineHonest
      BY LinesApart DEF Init, DocLineHonest
    <2> QED
      BY <2>1, <2>2, <2>3 DEF DocsServed
  <1> QED
    BY <1>1, DocsNext, TypeCorrect, PTL DEF Spec

---------------------------------------------------------------------------
(* Without tutorials the explorer implements Requests: however many
   navigations, builds and struct types there are, the pane shows the answer
   of the latest navigation or waits for it, and an answer that nobody waits
   for any more changes nothing.  A tutorial step replaces the pane without
   counting as a navigation, so the theorem assumes there are no steps (a
   kernel for which tutorial.steps() finds none). *)

\* Without tutorials no frame shows a step.
NoStepFrames == \A i \in 1..Len(stack) : stack[i].view # "step"

Running == {b.token : b \in builds}

LEMMA NoSteps == ASSUME StepTag = <<>> PROVE 1..NSteps = {}
  BY DEF NSteps

LEMMA NoStepFramesStep ==
    ASSUME StepTag = <<>>, TypeOK, NoStepFrames, NavMove PROVE NoStepFrames'
  <1>0. /\ stack \in Seq(Frame) /\ <<>> \in Seq(Frame) /\ Len(stack) \in Nat
        /\ token + 1 \in Nat
    BY EmptySeq, LenProperties DEF TypeOK
  <1>1. ASSUME NEW s \in {<<>>, stack}, NEW f \in Frame, f.view # "step",
               stack' = Append(s, f)
        PROVE  NoStepFrames'
    <2>1. s \in Seq(Frame) /\ Len(s) \in Nat /\ \A i \in 1..Len(s) : s[i].view # "step"
      <3>1. CASE s = <<>>
        BY <3>1, EmptySeq
      <3>2. CASE s = stack
        BY <1>0, <3>2 DEF NoStepFrames
      <3> QED
        BY <3>1, <3>2
    <2>2. /\ Len(stack') = Len(s) + 1 /\ Top(stack') = f
          /\ \A i \in 1..Len(s) : stack'[i] = s[i]
      BY <1>1, <2>1, AppendProps
    <2>3. ASSUME NEW i \in 1..Len(stack') PROVE stack'[i].view # "step"
      <3>1. CASE i \in 1..Len(s)
        BY <2>1, <2>2, <3>1
      <3>2. CASE i = Len(stack')
        BY <1>1, <2>2, <3>2 DEF Top
      <3> QED
        BY <2>1, <2>2, <3>1, <3>2
    <2> QED
      BY <2>3 DEF NoStepFrames
  <1>2. ASSUME NEW s \in {<<>>, stack}, NEW f \in Frame, Shows(s, f) PROVE NoStepFrames'
    BY <1>1, <1>2 DEF Shows
  <1>3. ASSUME NEW s \in {<<>>, stack}, NEW v \in Deferred, Asks(s, v) PROVE NoStepFrames'
    <2>1. v \in Views /\ v # "step"
      BY DEF Views, Deferred
    <2>2. Waiting(v, token + 1) \in Frame
      BY <1>0, <2>1, FrameTypes
    <2>3. Waiting(v, token + 1).view # "step"
      BY <2>1 DEF Waiting
    <2> QED
      BY <1>1, <1>3, <2>2, <2>3 DEF Asks
  <1>4. CASE Pops
    <2>1. /\ Len(stack') = Len(stack) - 1
          /\ \A i \in 1..(Len(stack) - 1) : stack'[i] = stack[i]
      BY <1>0, <1>4, BelowProps DEF Pops
    <2> QED
      BY <1>0, <2>1 DEF NoStepFrames
  <1>5. ASSUME NEW b \in builds, Finishes(b) PROVE NoStepFrames'
    <2>1. CASE b.token # token \/ stack = <<>>
      BY <1>5, <2>1 DEF Finishes, NoStepFrames
    <2>2. CASE ~(b.token # token \/ stack = <<>>)
      <3>1. b \in Build
        BY DEF TypeOK
      <3>2. Answer(b) \in Frame /\ Answer(b).view # "step"
        <4>1. Answer(b) \in Frame
          BY <3>1, FrameTypes
        <4> QED
          BY <3>1, <4>1 DEF Answer, Pane, Build, Deferred
      <3>3. /\ Len(stack') = Len(stack) /\ Top(stack') = Answer(b)
            /\ \A i \in 1..(Len(stack) - 1) : stack'[i] = stack[i]
        BY <1>0, <1>5, <2>2, <3>2, ReplaceTopProps DEF Finishes
      <3>4. ASSUME NEW i \in 1..Len(stack') PROVE stack'[i].view # "step"
        <4>1. CASE i \in 1..(Len(stack) - 1)
          BY <1>0, <3>3, <4>1 DEF NoStepFrames
        <4>2. CASE i = Len(stack')
          BY <3>2, <3>3, <4>2 DEF Top
        <4> QED
          BY <1>0, <3>3, <4>1, <4>2
      <3> QED
        BY <3>4 DEF NoStepFrames
    <2> QED
      BY <2>1, <2>2
  <1>6. CASE UNCHANGED navVars
    BY <1>6 DEF navVars, NoStepFrames
  <1> QED
    BY <1>2, <1>3, <1>4, <1>5, <1>6, NoSteps DEF NavMove

---------------------------------------------------------------------------
\* A move of the explorer is a step of Requests, or changes nothing there.
LEMMA MovesArePromised ==
    ASSUME StepTag = <<>>, NavInv, NoStepFrames, NavMove
    PROVE  Promise!Next \/ UNCHANGED <<token, Running, Shown>>
  <1>0. /\ stack \in Seq(Frame) /\ <<>> \in Seq(Frame) /\ Len(stack) \in Nat
        /\ token \in Nat /\ token + 1 \in Nat
    BY NavFacts, EmptySeq, LenProperties
  <1>1. ASSUME NEW s \in {<<>>, stack}, NEW f \in Frame, Shows(s, f) PROVE Promise!Show
    <2>1. stack' # <<>> /\ Top(stack') = f
      BY <1>0, <1>1, AppendProps DEF Shows
    <2>2. Shown' = <<"answer", token + 1>>
      BY <1>1, <2>1 DEF Shows, Shown
    <2>3. token' = token + 1 /\ Running' = Running /\ token + 1 \in 0..(token + 1)
      BY <1>0, <1>1 DEF Shows, Running
    <2> QED
      BY <2>2, <2>3 DEF Promise!Show, Running
  <1>2. ASSUME NEW s \in {<<>>, stack}, NEW v \in Deferred, Asks(s, v) PROVE Promise!Ask
    <2>1. Waiting(v, token + 1) \in Frame
      <3>1. v \in Views
        BY DEF Views
      <3> QED
        BY <1>0, <3>1, FrameTypes
    <2>2. stack' # <<>> /\ Top(stack') = Waiting(v, token + 1)
      BY <1>0, <1>2, <2>1, AppendProps DEF Asks
    <2>3. Shown' = <<"waiting", token + 1>>
      BY <2>2 DEF Shown, Waiting
    <2>4. token' = token + 1 /\ Running' = Running \cup {token + 1}
      <3> DEFINE b0 == [token |-> token + 1, view |-> v]
      <3>1. b0.token = token + 1 /\ builds' = builds \cup {b0} /\ token' = token + 1
        BY <1>2 DEF Asks
      <3> HIDE DEF b0
      <3>2. \A n : n \in Running' <=> \E b \in builds \cup {b0} : n = b.token
        BY <3>1 DEF Running
      <3>3. \A n : n \in Running' <=> n \in Running \/ n = token + 1
        BY <3>1, <3>2 DEF Running
      <3> QED
        BY <3>1, <3>3
    <2> QED
      BY <2>3, <2>4 DEF Promise!Ask, Running
  <1>3. CASE Pops
    <2>1. /\ stack' # <<>> /\ stack' \in Seq(Frame)
          /\ Top(stack').by \in Nat /\ Top(stack').by <= token
      <3>1. /\ stack' \in Seq(Frame) /\ Len(stack') = Len(stack) - 1
            /\ \A i \in 1..(Len(stack) - 1) : stack'[i] = stack[i]
        BY <1>0, <1>3, BelowProps DEF Pops
      <3>2. Len(stack') \in 1..(Len(stack) - 1)
        BY <1>0, <1>3, <3>1 DEF Pops
      <3>3. Top(stack') = stack[Len(stack')] /\ Len(stack') \in 1..Len(stack)
        BY <1>0, <3>1, <3>2 DEF Top
      <3>4. stack' # <<>>
        BY <3>2, EmptySeq
      <3> QED
        BY <3>1, <3>3, <3>4, NavFacts DEF Frame
    <2>2. \E w \in {"waiting", "answer"} : Shown' = <<w, Top(stack').by>>
      BY <2>1 DEF Shown
    <2>3. token' = token + 1 /\ Running' = Running /\ Top(stack').by \in 0..(token + 1)
      BY <1>0, <1>3, <2>1 DEF Pops, Running
    <2>4. Promise!Show
      BY <2>2, <2>3 DEF Promise!Show, Running
    <2> QED
      BY <2>4 DEF Promise!Next
  <1>4. ASSUME NEW b \in builds, Finishes(b) PROVE Promise!Finish(b.token)
    <2>1. /\ b.token \in Running /\ Running' = Running \ {b.token} /\ token' = token
          /\ b \in Build
      BY <1>4, NavFacts DEF Finishes, Running
    <2>2. CASE b.token # token
      <3>1. Shown' = Shown
        BY <1>4, <2>2 DEF Finishes, Shown
      <3> QED
        BY <2>1, <2>2, <3>1 DEF Promise!Finish, Running
    <2>3. CASE b.token = token
      <3>1. stack # <<>> /\ Top(stack).view # "step"
        <4>1. stack # <<>>
          BY <2>3 DEF NavInv, CurrentBuildOwnsTop
        <4>2. Len(stack) \in 1..Len(stack)
          BY <1>0, <4>1, EmptySeq
        <4> QED
          BY <4>1, <4>2 DEF Top, NoStepFrames
      <3>2. Top(stack) = Waiting(b.view, b.token)
        BY <2>3, <3>1 DEF NavInv, CurrentBuildOwnsTop
      <3>3. Shown = <<"waiting", token>>
        BY <2>3, <3>1, <3>2 DEF Shown, Waiting
      <3>4. stack' # <<>> /\ Top(stack') = Answer(b)
        <4>1. Answer(b) \in Frame
          BY <2>1, FrameTypes
        <4> QED
          BY <1>0, <1>4, <2>3, <3>1, <4>1, ReplaceTopProps DEF Finishes
      <3>5. Shown' = <<"answer", token>>
        BY <2>3, <3>4 DEF Shown, Answer, Pane
      <3> QED
        BY <2>1, <2>3, <3>3, <3>5 DEF Promise!Finish, Running
    <2> QED
      BY <2>2, <2>3
  <1>5. CASE UNCHANGED navVars
    BY <1>5 DEF navVars, Running, Shown
  <1> QED
    <2>1. ASSUME NEW b \in builds, Finishes(b) PROVE Promise!Next
      BY <1>4, <2>1 DEF Promise!Next
    <2> QED
      BY <1>1, <1>2, <1>3, <1>5, <2>1, NoSteps DEF NavMove, Promise!Next

\* "a result that arrives after the user moved on is dropped instead of
\* overwriting whatever is on screen now" (Explorer._token): outside of the
\* tutorial, every behaviour of the explorer is one that Requests allows.
THEOREM ExplorerKeepsPromise == ASSUME StepTag = <<>> PROVE Spec => LatestRequestWins
  <1> DEFINE Inv == NavInv /\ NoStepFrames
  <1>1. Init => Promise!Init /\ NoStepFrames
    <2> SUFFICES ASSUME Init PROVE Promise!Init /\ NoStepFrames
      OBVIOUS
    <2>1. CASE stack = <<Waiting("report", 1)>> /\ token = 1
               /\ builds = {[token |-> 1, view |-> "report"]}
      <3>1. stack # <<>> /\ Top(stack) = Waiting("report", 1) /\ Len(stack) = 1
        BY <2>1 DEF Top
      <3>2. Shown = <<"waiting", 1>> /\ NoStepFrames
        BY <2>1, <3>1 DEF Shown, Waiting, NoStepFrames
      <3>3. {b.token : b \in builds} = {1}
        BY <2>1
      <3> QED
        BY <2>1, <3>2, <3>3 DEF Promise!Init
    <2>2. CASE stack = <<>> /\ token = 0 /\ builds = {}
      BY <2>2 DEF Promise!Init, Shown, NoStepFrames
    <2> QED
      BY <2>1, <2>2 DEF Init
  <1>2. TypeOK /\ GraphOverFrames /\ NoStepFrames /\ [Next]_vars => NoStepFrames'
    BY EveryMove, NoStepFramesStep
  <1>3. NavInv /\ NoStepFrames /\ [Next]_vars
        => [Promise!Next]_<<token, {b.token : b \in builds}, Shown>>
    <2>1. NavInv /\ [Next]_vars => NavMove
      BY EveryMove DEF NavInv
    <2> QED
      BY <2>1, MovesArePromised DEF Running
  <1>4. Spec => []NavInv
    BY TypeCorrect, GraphsOverFrames, ResultsReachTheirFrame, PTL DEF NavInv, ResultsOwned
  <1> QED
    BY <1>1, <1>2, <1>3, <1>4, TypeCorrect, GraphsOverFrames, PTL
    DEF Spec, LatestRequestWins, Promise!Spec
=============================================================================
