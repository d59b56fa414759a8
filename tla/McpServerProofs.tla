--------------------------- MODULE McpServerProofs ---------------------------
(***************************************************************************)
(* What holds of McpServer for every script a client may send: the builds  *)
(* it runs are builds of PacketBuild, and its answers are in order.        *)
(***************************************************************************)
EXTENDS McpServer, PacketBuildProofs

-----------------------------------------------------------------------------
(* A step of the server is a step of a build or none at all. *)

LEMMA ServerStepsAreBuildSteps == [Next]_vars => [BuildNext]_buildVars
<1> SUFFICES ASSUME [Next]_vars PROVE [BuildNext]_buildVars
  OBVIOUS
<1>1. CASE UNCHANGED vars
  BY <1>1 DEF vars
<1>2. CASE ServerStep
  <2>1. CASE CallBrief
    <3>1. PICK slug \in BriefSlugs : Begin(Server, BriefRequest(slug))
      BY <2>1 DEF CallBrief
    <3>2. Server \in Procs /\ BriefRequest(slug) \in Requests
      BY ServerIsAProcess, BriefsAreRequests
    <3> QED BY <3>1, <3>2 DEF BuildNext
  <2>2. CASE AnswerBrief \/ Close
    BY <2>2 DEF AnswerBrief, Close
  <2>3. CASE ServerStep /\ ~CallBrief /\ ~AnswerBrief /\ ~Close
    BY <2>3 DEF ServerStep, Reads, RefuseOversize, SkipBlank, RefuseGarbage,
         IgnoreNotification, AnswerPing, RefuseMethod, RefuseCall, RefuseArguments, CallScan
  <2> QED BY <1>2, <2>1, <2>2, <2>3
<1>3. CASE AnyBuildStep
  BY <1>3 DEF AnyBuildStep, BuildNext
<1> QED BY <1>1, <1>2, <1>3 DEF Next

\* The server's builds, and those beside it, are builds of PacketBuild: what
\* is proved of any builds holds of the packets handed out over MCP.
THEOREM ServerRunsBuilds == Spec => BuildSpec
<1>1. Init => BuildInit
  BY DEF Init
<1> QED BY <1>1, ServerStepsAreBuildSteps, PTL DEF Spec, BuildSpec

\* The content of whatever the MCP tool returns or writes was scanned for secrets,
\* whatever the user saves between the reads of a build; the names beside it, in
\* provenance.location, too, unless the file was saved after they were read.
THEOREM ServerCarriesOnlyScanned == Spec => []CarriesOnlyScanned
  BY ServerRunsBuilds, OnlyScannedIsCarried, PTL

\* What the tool reads back from disk and returns is the packet it built,
\* unless another process asked for the same in the same second.
THEOREM ServerReadsBackItsOwn == Spec => []ReadBackIsOwn
  BY ServerRunsBuilds, ReadBackIsOwnPacket, PTL

-----------------------------------------------------------------------------
(* Types. *)

ServerTypes ==
  /\ script \in Seq(Lines)
  /\ at \in 1..(Len(script) + 1)
  /\ serving \in 0..Len(script)
  /\ outbox \in Seq(Answer)
  /\ closed \in BOOLEAN

\* The line whose call is running is the one read last, and a request.
ServingInv == serving # 0 => serving = at - 1 /\ script[serving] = "brief"

ServerInv == ServerTypes /\ ServingInv

LEMMA ServerInvInit == Init => ServerInv
<1> SUFFICES ASSUME Init PROVE ServerInv
  OBVIOUS
<1>1. script \in Seq(Lines)
  BY ScriptsAreLines DEF Init
<1>2. Len(script) \in Nat /\ <<>> \in Seq(Answer)
  BY <1>1
<1>3. 1 \in 1..(Len(script) + 1) /\ 0 \in 0..Len(script)
  BY <1>2
<1>4. ServerTypes
  BY <1>1, <1>2, <1>3 DEF Init, ServerTypes
<1>5. ServingInv
  BY DEF Init, ServingInv
<1> QED BY <1>4, <1>5 DEF ServerInv

\* A request is one of the eight answered lines, under the id it carries.
Answers(line, id, body) ==
  /\ id \in Nat /\ body \in Bodies
  /\ IsAnswered(line) /\ id = IdOf(line)

\* A line is read: it is answered, or skipped, or its call begins.
LineTaken(n) ==
  /\ serving = 0 /\ n = at /\ at \in DOMAIN script /\ at' = at + 1
  /\ UNCHANGED script
  /\ \/ /\ serving' = 0
        /\ \E id, body : Answers(n, id, body) /\ Write(id, body)
     \/ /\ serving' = 0
        /\ ~IsAnswered(n)
        /\ UNCHANGED outbox
     \/ /\ serving' = n /\ script[n] = "brief"
        /\ UNCHANGED outbox

\* A call is over and is answered.
CallOver ==
  /\ serving # 0 /\ serving' = 0
  /\ \E body : Answers(serving, serving, body) /\ Write(serving, body)
  /\ UNCHANGED <<script, at>>

\* Every step of the server does one of the two, or none of it.
LEMMA StepOutcomes ==
  ASSUME ServerInv, [Next]_vars
  PROVE  /\ closed' \in BOOLEAN
         /\ \/ LineTaken(at)
            \/ CallOver
            \/ UNCHANGED <<script, at, serving, outbox>>
<1> USE DEF ServerInv, ServerTypes
<1>0. \A id \in Nat, line, body \in Bodies :
        at = line /\ IsAnswered(line) /\ id = IdOf(line) => Answers(line, id, body)
  BY DEF Answers
<1>1. ASSUME NEW line, NEW id \in Nat, NEW body \in Bodies,
             Reads(line), Write(id, body), UNCHANGED <<serving, closed>>,
             line \notin {"blank", "notification"},
             id = IF line \in {"oversize", "garbage"} THEN NullId ELSE at
      PROVE  LineTaken(at)
  <2>1. Answers(at, id, body)
    BY <1>1 DEF Answers, Reads, IsAnswered, IdOf
  <2> QED BY <1>1, <2>1 DEF LineTaken, Reads
<1>2. ASSUME NEW line \in {"blank", "notification"}, Reads(line),
             UNCHANGED <<serving, outbox, closed>>
      PROVE  LineTaken(at)
  BY <1>2 DEF LineTaken, Reads, IsAnswered
<1>3. CASE UNCHANGED vars \/ AnyBuildStep \/ Close
  BY <1>3 DEF vars, serverVars, AnyBuildStep, Close
<1>4. CASE RefuseOversize
  BY <1>1, <1>4 DEF RefuseOversize, NullId, Bodies
<1>5. CASE SkipBlank \/ IgnoreNotification
  BY <1>2, <1>5 DEF SkipBlank, IgnoreNotification
<1>6. CASE RefuseGarbage
  BY <1>1, <1>6 DEF RefuseGarbage, NullId, Bodies
<1>7. CASE AnswerPing \/ RefuseMethod \/ RefuseArguments
  <2>1. at \in Nat
    OBVIOUS
  <2> QED BY <1>1, <1>7, <2>1 DEF AnswerPing, RefuseMethod, RefuseArguments, Bodies
<1>8. CASE RefuseCall
  <2>1. at \in Nat
    OBVIOUS
  <2> QED BY <1>1, <1>8, <2>1 DEF RefuseCall, Bodies
<1>9. CASE CallScan
  <2>1. at \in Nat /\ \E body \in Bodies : Write(at, body)
    BY <1>9 DEF CallScan, Bodies
  <2> QED BY <1>1, <1>9, <2>1 DEF CallScan
<1>10. CASE CallBrief
  BY <1>10 DEF CallBrief, LineTaken
<1>11. CASE AnswerBrief
  <2>1. \E body \in {"result", "tool_error"} : Write(serving, body)
    BY <1>11 DEF AnswerBrief
  <2>2. \A body \in {"result", "tool_error"} : Answers(serving, serving, body)
    BY <1>11 DEF AnswerBrief, Answers, Bodies, IsAnswered, IdOf, ServingInv
  <2> QED BY <1>11, <2>1, <2>2 DEF AnswerBrief, CallOver
<1> QED
  BY <1>3, <1>4, <1>5, <1>6, <1>7, <1>8, <1>9, <1>10, <1>11
     DEF Next, ServerStep, Reads, RefuseOversize, SkipBlank, RefuseGarbage, IgnoreNotification,
         AnswerPing, RefuseMethod, RefuseCall, RefuseArguments, CallScan, CallBrief, AnswerBrief

LEMMA ServerInvStep == ServerInv /\ [Next]_vars => ServerInv'
<1> SUFFICES ASSUME ServerInv, [Next]_vars PROVE ServerInv'
  OBVIOUS
<1> USE DEF ServerInv, ServerTypes
<1>1. closed' \in BOOLEAN
  BY StepOutcomes
<1>2. CASE LineTaken(at)
  <2>1. outbox' \in Seq(Answer)
    <3>1. CASE UNCHANGED outbox
      BY <3>1
    <3>2. CASE \E id, body : Answers(at, id, body) /\ Write(id, body)
      BY <3>2 DEF Answers, Write, Answer
    <3> QED BY <1>2, <3>1, <3>2 DEF LineTaken
  <2>2. at \in 1..Len(script) /\ at' = at + 1 /\ script' = script
    BY <1>2 DEF LineTaken
  <2>3. serving' \in {0, at} /\ (serving' = at => script[at] = "brief" \/ at = 0)
    BY <1>2, <2>2 DEF LineTaken
  <2> QED BY <1>1, <2>1, <2>2, <2>3 DEF ServingInv
<1>3. CASE CallOver
  BY <1>1, <1>3 DEF CallOver, Answers, Write, Answer, ServingInv
<1>4. CASE UNCHANGED <<script, at, serving, outbox>>
  BY <1>1, <1>4 DEF ServingInv
<1> QED BY <1>2, <1>3, <1>4, StepOutcomes

LEMMA ServerInvHolds == Spec => []ServerInv
  BY ServerInvInit, ServerInvStep, PTL DEF Spec

-----------------------------------------------------------------------------
(* The order of the answers. *)

\* Lines are handled in order: what is added is greater than what was there.
LEMMA HandledGrows ==
  ASSUME ServerInv, [Next]_vars
  PROVE  \/ Handled' = Handled /\ UNCHANGED <<script, outbox>>
         \/ \E n \in DOMAIN script :
              /\ script' = script
              /\ Handled' = Handled \cup {n} /\ \A line \in Handled : line < n
              /\ \/ ~IsAnswered(n) /\ UNCHANGED outbox
                 \/ \E id, body : Answers(n, id, body) /\ Write(id, body)
<1> USE DEF ServerInv, ServerTypes
<1>1. CASE UNCHANGED <<script, at, serving, outbox>>
  BY <1>1 DEF Handled
<1>2. CASE CallOver
  <2>1. serving \in DOMAIN script /\ Handled = 1..(serving - 1) /\ Handled' = 1..serving
    BY <1>2 DEF CallOver, Handled, ServingInv
  <2>2. script' = script /\ \E body : Answers(serving, serving, body) /\ Write(serving, body)
    BY <1>2 DEF CallOver
  <2>3. Handled' = Handled \cup {serving} /\ \A line \in Handled : line < serving
    BY <2>1
  <2> QED BY <2>1, <2>2, <2>3
<1>3. CASE LineTaken(at)
  <2>1. at \in DOMAIN script /\ script' = script /\ Handled = 1..(at - 1)
    BY <1>3 DEF LineTaken, Handled
  <2>2. CASE serving' = at
    <3>1. Handled' = Handled /\ UNCHANGED outbox
      BY <1>3, <2>1, <2>2 DEF LineTaken, Handled
    <3> QED BY <2>1, <3>1
  <2>3. CASE serving' = 0
    <3>1. Handled' = 1..at
      BY <1>3, <2>1, <2>3 DEF LineTaken, Handled
    <3>2. Handled' = Handled \cup {at} /\ \A line \in Handled : line < at
      BY <2>1, <3>1
    <3>3. \/ ~IsAnswered(at) /\ UNCHANGED outbox
          \/ \E id, body : Answers(at, id, body) /\ Write(id, body)
      BY <1>3, <2>1, <2>3 DEF LineTaken
    <3> QED BY <2>1, <3>2, <3>3
  <2> QED BY <1>3, <2>2, <2>3 DEF LineTaken
<1> QED BY <1>1, <1>2, <1>3, StepOutcomes

LEMMA OrderStep == ServerInv /\ AnswersInOrder /\ [Next]_vars => AnswersInOrder'
<1> SUFFICES ASSUME ServerInv, AnswersInOrder, [Next]_vars PROVE AnswersInOrder'
  OBVIOUS
<1>0. outbox \in Seq(Answer) /\ Len(outbox) \in Nat /\ DOMAIN outbox = 1..Len(outbox)
  BY DEF ServerInv, ServerTypes
<1>1. CASE Handled' = Handled /\ UNCHANGED <<script, outbox>>
  <2>1. Due' = Due
    BY <1>1 DEF Due, IsAnswered
  <2> QED BY <1>1, <2>1 DEF AnswersInOrder, IdOf
<1>2. ASSUME NEW n \in DOMAIN script, script' = script, Handled' = Handled \cup {n},
             ~IsAnswered(n), UNCHANGED outbox
      PROVE  AnswersInOrder'
  <2>1. Due' = Due
    BY <1>2 DEF Due, IsAnswered
  <2> QED BY <1>2, <2>1 DEF AnswersInOrder, IdOf
<1>3. ASSUME NEW n \in DOMAIN script, script' = script, Handled' = Handled \cup {n},
             \A line \in Handled : line < n,
             NEW id, NEW body, Answers(n, id, body), Write(id, body)
      PROVE  AnswersInOrder'
  <2>1. PICK line \in [DOMAIN outbox -> Due] :
          /\ \A due \in Due : \E i \in DOMAIN outbox : line[i] = due
          /\ \A i, j \in DOMAIN outbox : i < j => line[i] < line[j]
          /\ \A i \in DOMAIN outbox : outbox[i].id = IdOf(line[i])
    BY DEF AnswersInOrder
  <2> DEFINE last == Len(outbox) + 1
             after == [i \in 1..last |-> IF i = last THEN n ELSE line[i]]
  <2>2. Due' = Due \cup {n}
    BY <1>3 DEF Due, IsAnswered, Answers
  <2>3. /\ DOMAIN outbox' = 1..last
        /\ outbox'[last].id = id
        /\ \A i \in DOMAIN outbox : outbox'[i] = outbox[i]
    BY <1>0, <1>3 DEF Write
  <2>4. \A i \in 1..last : i = last \/ (i \in DOMAIN outbox /\ i # last /\ i < last)
    BY <1>0
  <2>5. after \in [DOMAIN outbox' -> Due']
    BY <2>1, <2>2, <2>3, <2>4
  <2>6. \A due \in Due' : \E i \in DOMAIN outbox' : after[i] = due
    <3>1. last \in 1..last /\ after[last] = n
      BY <1>0
    <3>2. \A i \in DOMAIN outbox : i \in 1..last /\ after[i] = line[i]
      BY <1>0
    <3> QED BY <2>1, <2>2, <2>3, <3>1, <3>2
  <2>7. \A i, j \in DOMAIN outbox' : i < j => after[i] < after[j]
    <3> SUFFICES ASSUME NEW i \in 1..last, NEW j \in 1..last, i < j
                 PROVE  after[i] < after[j]
      BY <2>3
    <3>1. i \in DOMAIN outbox /\ after[i] = line[i]
      BY <1>0
    <3>2. CASE j = last
      BY <1>3, <2>1, <3>1, <3>2 DEF Due
    <3>3. CASE j # last
      BY <1>0, <2>1, <2>4, <3>1, <3>3
    <3> QED BY <3>2, <3>3
  <2>8. \A i \in DOMAIN outbox' : outbox'[i].id = IdOf(after[i])
    <3>0. \A i \in DOMAIN outbox : i \in 1..last /\ i # last /\ after[i] = line[i]
      BY <1>0
    <3>1. \A i \in DOMAIN outbox : outbox'[i].id = IdOf(after[i])
      <4> HIDE DEF after, last
      <4> QED BY <2>1, <2>3, <3>0
    <3>2. outbox'[last].id = IdOf(after[last])
      BY <1>0, <1>3, <2>3 DEF Answers
    <3> QED BY <2>3, <2>4, <3>1, <3>2
  <2> HIDE DEF after
  <2> QED BY <1>3, <2>5, <2>6, <2>7, <2>8 DEF AnswersInOrder, IdOf
<1> QED BY <1>1, <1>2, <1>3, HandledGrows

\* Whatever a client sends, each line that asks for an answer is answered
\* once, under its id and in the order the lines came.
THEOREM AnswersComeInOrder == Spec => []AnswersInOrder
<1>1. Init => AnswersInOrder
  <2> SUFFICES ASSUME Init PROVE AnswersInOrder
    OBVIOUS
  <2>1. Handled = {} /\ DOMAIN outbox = {}
    BY DEF Init, Handled
  <2>2. [i \in {} |-> i] \in [DOMAIN outbox -> Due]
    BY <2>1
  <2> QED BY <2>1, <2>2 DEF AnswersInOrder, Due
<1> QED BY <1>1, OrderStep, ServerInvHolds, PTL DEF Spec

\* Every state of the server and of the builds has its type.
THEOREM ServerTypeCorrect == Spec => []TypeOK
<1>1. BuildTypeOK /\ ServerInv => TypeOK
  BY DEF TypeOK, ServerInv, ServerTypes
<1> QED BY <1>1, ServerInvHolds, ServerRunsBuilds, PacketsTypeCorrect, PTL

-----------------------------------------------------------------------------
(* EveryRequestAnswered, all of it but fairness. *)

Asked == {line \in DOMAIN script : IsAnswered(line)}

\* One answer per line that asks for one, in the order of the lines.
AllAnswered ==
  \E line \in [DOMAIN outbox -> Asked] :
    /\ \A asked \in Asked : \E i \in DOMAIN outbox : line[i] = asked
    /\ \A i, j \in DOMAIN outbox : i < j => line[i] < line[j]
    /\ \A i \in DOMAIN outbox : outbox[i].id = IdOf(line[i])

\* Serve returns at the end of the stream, and after its last call.
ClosedAtEnd == closed => serving = 0 /\ at = Len(script) + 1

LEMMA ClosedStep ==
  ASSUME ServerInv, ClosedAtEnd, [Next]_vars
  PROVE  ClosedAtEnd' /\ (closed => UNCHANGED serverVars)
<1>1. CASE UNCHANGED vars \/ AnyBuildStep
  BY <1>1 DEF vars, serverVars, AnyBuildStep, ClosedAtEnd
<1>2. CASE Close
  BY <1>2 DEF Close, ClosedAtEnd
<1>3. CASE ServerStep /\ ~Close
  <2>1. ~closed /\ ~closed'
    BY <1>3 DEF ClosedAtEnd, ServerStep, Reads, RefuseOversize, SkipBlank, RefuseGarbage,
       IgnoreNotification, AnswerPing, RefuseMethod, RefuseCall, RefuseArguments, CallScan,
       CallBrief, AnswerBrief
  <2> QED
    BY <2>1 DEF ClosedAtEnd
<1> QED
  BY <1>1, <1>2, <1>3 DEF Next

\* "The server keeps serving subsequent requests": when Serve returns, each line
\* that asks for an answer has got one, whatever the lines before it were and
\* whatever became of their calls, and nothing is written afterwards.
THEOREM ClosingAnswersAll ==
  Spec => [](closed => AllAnswered) /\ [][closed => UNCHANGED serverVars]_vars
<1>1. Init => ClosedAtEnd
  BY DEF Init, ClosedAtEnd
<1>2. ServerInv /\ ClosedAtEnd /\ [Next]_vars =>
        ClosedAtEnd' /\ [closed => UNCHANGED serverVars]_vars
  BY ClosedStep
<1>3. ServerInv /\ ClosedAtEnd /\ AnswersInOrder => (closed => AllAnswered)
  <2> SUFFICES ASSUME ServerInv, ClosedAtEnd, AnswersInOrder, closed PROVE AllAnswered
    OBVIOUS
  <2>1. Handled = DOMAIN script
    <3>1. script \in Seq(Lines)
      BY DEF ServerInv, ServerTypes
    <3>2. Len(script) \in Nat /\ DOMAIN script = 1..Len(script)
      BY <3>1
    <3>3. Handled = 1..((Len(script) + 1) - 1)
      BY DEF ClosedAtEnd, Handled
    <3> QED
      BY <3>2, <3>3
  <2>2. Due = Asked
    BY <2>1 DEF Due, Asked
  <2> QED
    BY <2>2 DEF AnswersInOrder, AllAnswered
<1> QED
  BY <1>1, <1>2, <1>3, ServerInvHolds, AnswersComeInOrder, PTL DEF Spec

\* What the server has left to do: the lines it has not read, each of which may
\* be a build and its answer, the call it is in, and to close.
LineWork == 6 * Cardinality(Files) + 9

ServerWork ==
  (Len(script) + 1 - at) * LineWork + (IF closed THEN 0 ELSE 1)
    + (IF serving = 0 THEN 0 ELSE 1) + BuildWork(build[Server])

\* A line that is read is one fewer.
LEMMA OneLineLess ==
  ASSUME NEW lines \in Nat, NEW width \in Nat, lines >= 1
  PROVE  /\ (lines - 1) * width = lines * width - width
         /\ lines * width \in Nat /\ (lines - 1) * width \in Nat
  OBVIOUS

LEMMA ServerWorkIsNat ==
  ASSUME IsFiniteSet(Files), BuildTypeOK, ServerInv
  PROVE  /\ LineWork \in Nat /\ BuildWork(build[Server]) \in Nat
         /\ Len(script) + 1 - at \in Nat
         /\ (Len(script) + 1 - at) * LineWork \in Nat
         /\ ServerWork \in Nat
<1>1. build[Server] \in Build
  BY ServerIsAProcess DEF BuildTypeOK
<1>2. LineWork \in Nat /\ BuildWork(build[Server]) \in Nat
  BY <1>1, WorkIsNat DEF LineWork
<1>3. script \in Seq(Lines) /\ at \in 1..(Len(script) + 1)
  BY DEF ServerInv, ServerTypes
<1>4. Len(script) \in Nat
  BY <1>3
<1> DEFINE L == Len(script) + 1 - at
<1>5. L \in Nat
  BY <1>3, <1>4
<1> HIDE DEF L
<1>6. L * LineWork \in Nat
  BY <1>2, <1>5
<1>7. ServerWork \in Nat
  <2> DEFINE x == L * LineWork
             y == BuildWork(build[Server])
  <2>1. ServerWork = x + (IF closed THEN 0 ELSE 1) + (IF serving = 0 THEN 0 ELSE 1) + y
    BY DEF ServerWork, L
  <2>2. x \in Nat /\ y \in Nat
    BY <1>2, <1>6
  <2> HIDE DEF x, y
  <2> QED
    BY <2>1, <2>2
<1> QED
  BY <1>2, <1>5, <1>6, <1>7 DEF L

\* The steps of the server itself.
LEMMA ServerStepWork ==
  ASSUME IsFiniteSet(Files), BuildTypeOK, ServerInv, ServerStep
  PROVE  ServerWork' < ServerWork
<1> DEFINE L == Len(script) + 1 - at
           B == BuildWork(build[Server])
<1>0. /\ L \in Nat /\ LineWork \in Nat /\ B \in Nat /\ L * LineWork \in Nat
      /\ ServerWork = L * LineWork + (IF closed THEN 0 ELSE 1)
                        + (IF serving = 0 THEN 0 ELSE 1) + B
  BY ServerWorkIsNat DEF ServerWork
<1>1. ASSUME NEW S, NEW C, S \in {0, 1}, C \in {0, 1}, NEW W \in Nat,
             serving = 0, ~closed, at \in DOMAIN script, at' = at + 1, script' = script,
             C = IF closed' THEN 0 ELSE 1, S = IF serving' = 0 THEN 0 ELSE 1,
             W = BuildWork(build'[Server]), S + W < LineWork + B
      PROVE  ServerWork' < ServerWork
  <2>1. script \in Seq(Lines) /\ at \in Nat
    BY DEF ServerInv, ServerTypes
  <2>2. Len(script) \in Nat /\ L >= 1 /\ Len(script') + 1 - at' = L - 1
    BY <1>1, <2>1
  <2>3. ServerWork' = (Len(script') + 1 - at') * LineWork + C + S + W
    BY <1>1 DEF ServerWork, LineWork
  <2>4. ServerWork' = (L - 1) * LineWork + C + S + W
    BY <2>2, <2>3
  <2>5. ServerWork = L * LineWork + 1 + B
    BY <1>0, <1>1
  <2> HIDE DEF L, B
  <2>6. (L - 1) * LineWork = L * LineWork - LineWork
    BY <1>0, <2>2, OneLineLess
  <2> DEFINE x == L * LineWork
  <2>7. ServerWork' = x - LineWork + C + S + W /\ ServerWork = x + 1 + B /\ x \in Nat
    BY <1>0, <2>4, <2>5, <2>6
  <2> HIDE DEF x
  <2> QED
    BY <1>0, <1>1, <2>7
<1>2. CASE CallBrief
  <2>1. PICK slug \in BriefSlugs : Begin(Server, BriefRequest(slug))
    BY <1>2 DEF CallBrief
  <2>2. build \in [Procs -> Build] /\ Server \in Procs
    BY ServerIsAProcess DEF BuildTypeOK
  <2> DEFINE r == [Idle EXCEPT !.step = "begun", !.request = BriefRequest(slug), !.first = head]
  <2>3. build'[Server] = r
    BY <2>1, <2>2 DEF Begin
  <2>4. r.step = "begun"
    BY IdleIsBuild DEF Build
  <2> HIDE DEF r
  <2>5. BuildWork(build'[Server]) = 6 * Cardinality(Files) + 7
    BY <2>3, <2>4 DEF BuildWork
  <2>6. Cardinality(Files) \in Nat
    BY FS_CardinalityType
  <2>7. \A S \in {0, 1} : S + BuildWork(build'[Server]) < LineWork + B
    BY <1>0, <2>5, <2>6 DEF LineWork
  <2>8. BuildWork(build'[Server]) \in Nat
    BY <2>5, <2>6
  <2> HIDE DEF B, L
  <2> QED
    BY <1>1, <1>2, <2>7, <2>8 DEF CallBrief
<1>3. CASE AnswerBrief
  <2>1. serving # 0 /\ serving' = 0 /\ UNCHANGED <<buildVars, script, at, closed>>
    BY <1>3 DEF AnswerBrief
  <2>2. build' = build
    BY <2>1 DEF buildVars
  <2>3. ServerWork' = L * LineWork + (IF closed THEN 0 ELSE 1) + 0 + B
    BY <2>1, <2>2 DEF ServerWork, LineWork
  <2> DEFINE x == L * LineWork
  <2> HIDE DEF x, B
  <2> QED
    BY <1>0, <2>1, <2>3 DEF x
<1>4. CASE Close
  <2>1. ~closed /\ closed' /\ serving = 0 /\ UNCHANGED <<buildVars, script, at, serving>>
    BY <1>4 DEF Close
  <2>2. build' = build
    BY <2>1 DEF buildVars
  <2>3. ServerWork' = L * LineWork + 0 + 0 + B
    BY <2>1, <2>2 DEF ServerWork, LineWork
  <2> DEFINE x == L * LineWork
  <2> HIDE DEF x, B
  <2> QED
    BY <1>0, <2>1, <2>3 DEF x
<1>5. CASE ServerStep /\ ~CallBrief /\ ~AnswerBrief /\ ~Close
  <2>1. /\ serving = 0 /\ serving' = 0 /\ ~closed /\ ~closed' /\ at \in DOMAIN script
        /\ at' = at + 1 /\ script' = script /\ buildVars' = buildVars
    BY <1>5 DEF ServerStep, Reads, RefuseOversize, SkipBlank, RefuseGarbage,
       IgnoreNotification, AnswerPing, RefuseMethod, RefuseCall, RefuseArguments, CallScan
  <2>2. build' = build
    BY <2>1 DEF buildVars
  <2>3. LineWork > 0
    BY FS_CardinalityType DEF LineWork
  <2>4. 0 + BuildWork(build'[Server]) < LineWork + B /\ BuildWork(build'[Server]) \in Nat
    BY <1>0, <2>2, <2>3
  <2> HIDE DEF B, L
  <2> QED
    BY <1>1, <2>1, <2>4
<1> QED
  BY <1>2, <1>3, <1>4, <1>5 DEF ServerStep

\* The steps of the builds, and of all that is around them.
LEMMA SurroundingsWork ==
  ASSUME IsFiniteSet(Files), BuildTypeOK, ServerInv, UNCHANGED serverVars,
         BuildWork(build'[Server]) \in Nat
  PROVE  /\ BuildWork(build'[Server]) <= BuildWork(build[Server]) => ServerWork' <= ServerWork
         /\ BuildWork(build'[Server]) < BuildWork(build[Server]) => ServerWork' < ServerWork
<1> DEFINE x == (Len(script) + 1 - at) * LineWork + (IF closed THEN 0 ELSE 1)
                  + (IF serving = 0 THEN 0 ELSE 1)
           y == BuildWork(build[Server])
           z == BuildWork(build'[Server])
<1>1. ServerWork = x + y
  BY DEF ServerWork
<1>2. ServerWork' = x + z
  BY DEF ServerWork, LineWork, serverVars
<1>3. (Len(script) + 1 - at) * LineWork \in Nat /\ y \in Nat /\ z \in Nat
  BY ServerWorkIsNat
<1>4. x \in Nat
  BY <1>3
<1> HIDE DEF x, y, z
<1>5. (z <= y => ServerWork' <= ServerWork) /\ (z < y => ServerWork' < ServerWork)
  BY <1>1, <1>2, <1>3, <1>4
<1> QED
  BY <1>5 DEF y, z

LEMMA BuildsAroundWork ==
  ASSUME IsFiniteSet(Files), BuildTypeOK, AnyBuildStep
  PROVE  /\ BuildWork(build'[Server]) \in Nat
         /\ BuildWork(build'[Server]) <= BuildWork(build[Server])
<1> DEFINE y == BuildWork(build[Server])
           z == BuildWork(build'[Server])
<1>0. build \in [Procs -> Build] /\ Server \in Procs /\ build[Server] \in Build /\ y \in Nat
  BY ServerIsAProcess, WorkIsNat DEF BuildTypeOK
<1>1. ASSUME build'[Server] = build[Server] PROVE z \in Nat /\ z <= y
  BY <1>0, <1>1
<1>2. CASE Environment
  BY <1>1, <1>2 DEF Environment, MoveHead, Tick, Edit
<1>3. ASSUME NEW p \in Procs, BuildStep(p) PROVE z \in Nat /\ z <= y
  <2>1. CASE p = Server
    BY <1>0, <1>3, <2>1, BuildStepWork
  <2>2. CASE p # Server
    <3>1. \E r : build' = [build EXCEPT ![p] = r]
      BY <1>3 DEF BuildStep, OpenSelection, ReadWhole, Assemble, Recheck, RecheckRefused,
         WriteMarkdown, WriteJson, ReadBack, Expand, ReadNames, LeaveOut, ReadPrefix,
         Deliver, Fail
    <3> QED
      BY <1>0, <1>1, <2>2, <3>1
  <2> QED
    BY <2>1, <2>2
<1>4. ASSUME NEW p \in Procs, Stop(p) \/ Tear(p) PROVE z \in Nat /\ z <= y
  <2>1. build' = [build EXCEPT ![p] = Idle]
    BY <1>4 DEF Stop, Tear, Fail
  <2>2. build'[Server] = Idle \/ build'[Server] = build[Server]
    BY <1>0, <2>1
  <2>3. z = 0 \/ z = y
    BY <2>2, IdleHasNoWork
  <2> HIDE DEF y, z
  <2> QED
    BY <1>0, <2>3
<1>5. ASSUME NEW p \in Procs \ {Server}, NEW request \in Requests,
             Begin(p, request) \/ BeginRefused(p, request)
      PROVE  z \in Nat /\ z <= y
  <2>1. build'[Server] = build[Server]
    BY <1>0, <1>5 DEF Begin, BeginRefused
  <2> QED
    BY <1>1, <2>1
<1> QED
  BY <1>2, <1>3, <1>4, <1>5 DEF AnyBuildStep

\* Whatever happens around it, the server comes closer to the end of the stream
\* with each step of its own or of its build, and nothing ever sets it back.
THEOREM ServerStepsLeaveLess ==
  ASSUME IsFiniteSet(Files)
  PROVE  Spec => [][/\ ServerWork \in Nat /\ ServerWork' <= ServerWork
                    /\ ServerStep \/ BuildStep(Server) => ServerWork' < ServerWork]_vars
<1>1. BuildTypeOK /\ ServerInv => ServerWork \in Nat
  BY ServerWorkIsNat
<1>2. ASSUME BuildTypeOK, ServerInv, ServerWork \in Nat, (ServerWork \in Nat)', [Next]_vars
      PROVE  [/\ ServerWork \in Nat /\ ServerWork' <= ServerWork
              /\ ServerStep \/ BuildStep(Server) => ServerWork' < ServerWork]_vars
  <2>1. CASE ServerStep
    <3>1. ServerWork' < ServerWork
      BY <1>2, <2>1, ServerStepWork
    <3>2. ServerWork' <= ServerWork
      BY <1>2, <3>1
    <3> QED
      BY <1>2, <3>1, <3>2
  <2>2. CASE AnyBuildStep /\ ~ServerStep
    <3>1. ServerWork' <= ServerWork
      BY <1>2, <2>2, BuildsAroundWork, SurroundingsWork DEF AnyBuildStep
    <3>2. BuildStep(Server) => ServerWork' < ServerWork
      BY <1>2, <2>2, BuildStepWork, SurroundingsWork, ServerIsAProcess DEF AnyBuildStep
    <3> QED
      BY <1>2, <2>2, <3>1, <3>2
  <2> QED
    BY <1>2, <2>1, <2>2 DEF Next
<1>3. BuildTypeOK /\ ServerInv /\ ServerWork \in Nat /\ (ServerWork \in Nat)' /\ [Next]_vars =>
        [/\ ServerWork \in Nat /\ ServerWork' <= ServerWork
         /\ ServerStep \/ BuildStep(Server) => ServerWork' < ServerWork]_vars
  BY <1>2
<1> QED
  BY <1>1, <1>3, ServerInvHolds, ServerRunsBuilds, PacketsTypeCorrect, PTL DEF Spec
=============================================================================
