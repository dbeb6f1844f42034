----------------------------- MODULE RlmProofs -----------------------------
(***************************************************************************)
(* Proofs about the turn loop and the conversation under it, for every     *)
(* value of the constants: first what the loop gets right, each invariant  *)
(* from types and, where it is not inductive as it stands, from the        *)
(* strengthening stated before it; then what the operations of TauContext  *)
(* do to a list of any length, that RlmContext refines RlmLoop, and from   *)
(* both the invariants that relate the list to the loop.                   *)
(***************************************************************************)
EXTENDS RlmContext, SequenceTheorems, WellFoundedInduction, TLAPS

-----------------------------------------------------------------------------
(* What the three ways of changing the stack of activations do to it       *)

LEMMA NewFrameType == ASSUME NEW b \in Nat PROVE NewFrame(b) \in Frame
BY DEF NewFrame, Frame

\* The running activation is a typed element of a non-empty stack.
LEMMA TopType ==
  ASSUME TypeOK, Busy
  PROVE  /\ Len(frames) \in Nat /\ Len(frames) >= 1
         /\ Top \in Frame
BY DEF TypeOK, Top

LEMMA SetTopFacts ==
  ASSUME TypeOK, Busy, NEW f \in Frame
  PROVE  /\ SetTop(f) \in Seq(Frame)
         /\ SetTop(f) # <<>>
         /\ Len(SetTop(f)) = Len(frames)
         /\ SetTop(f)[Len(frames)] = f
         /\ \A i \in 1..Len(frames) : i # Len(frames) => SetTop(f)[i] = frames[i]
BY DEF TypeOK, SetTop

LEMMA UpdateFacts ==
  ASSUME NEW s \in Seq(Frame), NEW k \in 1..Len(s), NEW f \in Frame
  PROVE  /\ [s EXCEPT ![k] = f] \in Seq(Frame)
         /\ Len([s EXCEPT ![k] = f]) = Len(s)
         /\ [s EXCEPT ![k] = f][k] = f
         /\ \A i \in 1..Len(s) : i # k => [s EXCEPT ![k] = f][i] = s[i]
OBVIOUS

LEMMA PushFacts ==
  ASSUME NEW stack \in Seq(Frame), NEW f \in Frame
  PROVE  /\ Append(stack, f) \in Seq(Frame)
         /\ Append(stack, f) # <<>>
         /\ Len(Append(stack, f)) = Len(stack) + 1
         /\ Append(stack, f)[Len(stack) + 1] = f
         /\ \A i \in 1..Len(stack) : Append(stack, f)[i] = stack[i]
OBVIOUS

LEMMA FrontFacts ==
  ASSUME NEW S, NEW s \in Seq(S), Len(s) >= 1
  PROVE  /\ SubSeq(s, 1, Len(s) - 1) \in Seq(S)
         /\ Len(SubSeq(s, 1, Len(s) - 1)) = Len(s) - 1
         /\ \A i \in 1..Len(s) - 1 : SubSeq(s, 1, Len(s) - 1)[i] = s[i]
<1> DEFINE n == Len(s) - 1
<1>1. n \in Nat /\ \A i \in 1..n : s[i] \in S
  OBVIOUS
<1>2. /\ SubSeq(s, 1, n) \in Seq(S)
      /\ Len(SubSeq(s, 1, n)) = IF 1 <= n THEN n - 1 + 1 ELSE 0
      /\ \A i \in 1..n - 1 + 1 : SubSeq(s, 1, n)[i] = s[1 + i - 1]
  BY <1>1, SubSeqProperties
<1>3. n - 1 + 1 = n /\ \A i \in 1..n : 1 + i - 1 = i
  BY <1>1
<1> HIDE DEF n
<1>4. Len(SubSeq(s, 1, n)) = n /\ \A i \in 1..n : SubSeq(s, 1, n)[i] = s[i]
  BY <1>1, <1>2, <1>3
<1> QED BY <1>2, <1>4 DEF n

\* A return pops one activation; the one below it, if any, is marked.
LEMMA ReturnFacts ==
  ASSUME TypeOK, Busy,
         NEW how \in Endings, NEW content \in Nat, NEW reason \in BOOLEAN,
         Return(how, content, reason)
  PROVE  /\ reply' \in Reply
         /\ turnActive' \in BOOLEAN
         /\ frames' \in Seq(Frame)
         /\ Len(frames') = Len(frames) - 1
         /\ pc' \in {"idle", "check"}
         /\ pc' = "idle" <=> frames' = <<>>
         /\ pc' = "check" => frames'[Len(frames')].resumed
         /\ \A i \in 1..Len(frames') :
              /\ frames'[i].base = frames[i].base
              /\ frames'[i].errors = frames[i].errors
              /\ frames'[i].barren = frames[i].barren
<1> DEFINE outer == SubSeq(frames, 1, Len(frames) - 1)
<1>1. Len(frames) \in Nat /\ Len(frames) >= 1 /\ frames \in Seq(Frame)
  BY TopType DEF TypeOK
<1>2. /\ outer \in Seq(Frame)
      /\ Len(outer) = Len(frames) - 1
      /\ \A i \in 1..Len(outer) : outer[i] = frames[i]
  BY <1>1, FrontFacts
<1>3. reply' \in Reply /\ turnActive' \in BOOLEAN
  BY DEF Return, Reply
<1>4. CASE outer = <<>>
  BY <1>2, <1>3, <1>4 DEF Return
<1>5. CASE outer # <<>>
  <2> DEFINE n == Len(outer)
  <2>1. /\ frames' = [outer EXCEPT ![n] = Resume(outer[n])]
        /\ pc' = "check"
    BY <1>5 DEF Return
  <2>2. n = Len(outer) /\ n \in Nat /\ n >= 1 /\ n \in 1..n /\ outer[n] \in Frame
    BY <1>2, <1>5
  <2>3. /\ Resume(outer[n]) \in Frame
        /\ Resume(outer[n]).resumed
        /\ Resume(outer[n]).base = outer[n].base
        /\ Resume(outer[n]).errors = outer[n].errors
        /\ Resume(outer[n]).barren = outer[n].barren
    BY <2>2 DEF Frame, Resume
  <2>4. /\ frames' \in Seq(Frame)
        /\ Len(frames') = n
        /\ frames'[n] = Resume(outer[n])
        /\ \A i \in 1..n : i # n => frames'[i] = outer[i]
    <3> HIDE DEF outer, n
    <3> QED BY <1>2, <2>1, <2>2, <2>3, UpdateFacts
  <2>5. \A i \in 1..n : /\ frames'[i].base = frames[i].base
                        /\ frames'[i].errors = frames[i].errors
                        /\ frames'[i].barren = frames[i].barren
    BY <1>2, <2>3, <2>4
  <2> HIDE DEF outer
  <2> QED BY <1>2, <1>3, <2>1, <2>2, <2>3, <2>4, <2>5
<1> QED BY <1>4, <1>5

\* A segment taken off the pending lists leaves no empty list behind.
LEMMA PopSegmentType ==
  ASSUME NEW s \in Seq(Nat \ {0}), s # <<>>
  PROVE  PopSegment(s) \in Seq(Nat \ {0})
<1>1. Len(s) \in Nat /\ Len(s) >= 1 /\ s[Len(s)] \in Nat \ {0}
  OBVIOUS
<1>2. CASE s[Len(s)] = 1
  BY <1>1, <1>2, FrontFacts DEF PopSegment
<1>3. CASE s[Len(s)] # 1
  <2>1. s[Len(s)] - 1 \in Nat \ {0}
    BY <1>1, <1>3
  <2>2. PopSegment(s) = [s EXCEPT ![Len(s)] = s[Len(s)] - 1]
    BY <1>3 DEF PopSegment
  <2> QED BY <1>1, <2>1, <2>2
<1> QED BY <1>2, <1>3

LEMMA AnswerTypes ==
  ASSUME TypeOK
  PROVE  /\ NoAnswer \in Answer
         /\ \A n \in AnswerAfterCode : n \in Answer
         /\ \A n \in Answer, outcome \in Outcomes : Sync(outcome, n) \in Answer
         /\ \A a \in Answer, multi \in BOOLEAN : AfterEOT(a, multi) \in Answer
<1>1. NoAnswer \in Answer
  BY DEF NoAnswer, Nothing, Answer
<1>2. ns \in Answer /\ ans \in Answer /\ task \in Nat
  BY DEF TypeOK
<1>3. ASSUME NEW n \in AnswerAfterCode
      PROVE  n \in Answer
  <2>1. CASE n \in [content : {ns.content}, ready : BOOLEAN, text : {ns.text}]
    BY <1>2, <2>1 DEF Answer
  <2>2. CASE n \in [content : {task}, ready : BOOLEAN, text : BOOLEAN]
    BY <1>2, <2>2 DEF Answer
  <2>3. CASE n \in [content : {Nothing}, ready : BOOLEAN, text : {TRUE}]
    <3>1. Nothing \in Nat
      BY DEF Nothing
    <3> QED BY <2>3, <3>1 DEF Answer
  <2> QED BY <1>3, <2>1, <2>2, <2>3 DEF AnswerAfterCode
<1>4. \A n \in Answer, outcome \in Outcomes : Sync(outcome, n) \in Answer
  BY <1>2 DEF Answer, Sync, Nothing
<1>5. \A a \in Answer, multi \in BOOLEAN : AfterEOT(a, multi) \in Answer
  BY DEF Answer, AfterEOT
<1> QED BY <1>1, <1>3, <1>4, <1>5

LEMMA FrameUpdates ==
  ASSUME NEW f \in Frame
  PROVE  /\ Failed(f) \in Frame
         /\ FailedOnce(f) \in Frame
         /\ Resume(f) \in Frame
         /\ \A outcome \in Outcomes : AfterRun(f, outcome) \in Frame
<1>1. Failed(f) \in Frame
  <2>1. f.errors + 1 \in Nat
    BY DEF Frame
  <2>2. Failed(f) = [f EXCEPT !.errors = f.errors + 1, !.counted = TRUE]
    BY DEF Frame, Failed
  <2> QED BY <2>1, <2>2 DEF Frame
<1>2. FailedOnce(f) \in Frame
  BY <1>1 DEF FailedOnce
<1>3. Resume(f) \in Frame
  BY DEF Frame, Resume
<1>4. \A g \in Frame : [g EXCEPT !.prose = 0] \in Frame
  BY DEF Frame
<1>5. \A outcome \in Outcomes : AfterRun(f, outcome) \in Frame
  <2>1. [f EXCEPT !.errors = 0, !.barren = 1, !.prose = 0] \in Frame
    BY DEF Frame
  <2>2. [f EXCEPT !.prose = 0] \in Frame
    BY DEF Frame
  <2> QED BY <1>1, <1>4, <2>1, <2>2 DEF AfterRun
<1> QED BY <1>1, <1>2, <1>3, <1>5

-----------------------------------------------------------------------------
(* Type correctness                                                        *)

\* The part of TypeOK that an end of an activation, a new one or an update
\* of the running one must establish.
TurnTypes ==
  /\ pc \in PCs
  /\ frames \in Seq(Frame)
  /\ Busy => frames # <<>>
  /\ reply \in Reply
  /\ turnActive \in BOOLEAN

LEMMA ReturnTypes ==
  ASSUME TypeOK, Busy,
         NEW how \in Endings, NEW content \in Nat, NEW reason \in BOOLEAN,
         Return(how, content, reason)
  PROVE  TurnTypes'
<1>1. pc' \in {"idle", "check"} /\ (pc' = "idle" <=> frames' = <<>>)
  BY ReturnFacts
<1>2. frames' \in Seq(Frame) /\ reply' \in Reply /\ turnActive' \in BOOLEAN
  BY ReturnFacts
<1> QED BY <1>1, <1>2 DEF TurnTypes, Busy, PCs

LEMMA ForceEndTypes ==
  ASSUME TypeOK, Busy,
         NEW how \in Endings, NEW a \in Answer, NEW reason \in BOOLEAN,
         ForceEnd(how, a, reason)
  PROVE  TurnTypes' /\ tail' = "assistant" /\ cleanupPending' = TRUE
<1>1. a.content \in Nat
  BY DEF Answer
<1>2. Return(how, a.content, reason)
  BY DEF ForceEnd
<1> QED BY <1>1, <1>2, ReturnTypes DEF ForceEnd

LEMMA SetTopTypes ==
  ASSUME TypeOK, Busy, NEW f \in Frame, frames' = SetTop(f), pc' \in PCs,
         UNCHANGED <<reply, turnActive>>
  PROVE  TurnTypes'
BY SetTopFacts DEF TurnTypes, TypeOK

LEMMA BeginTurnTypes ==
  ASSUME TypeOK, NEW stack \in Seq(Frame), BeginTurn(stack), UNCHANGED reply
  PROVE  /\ TurnTypes'
         /\ tail' = "user" /\ forceEnd' = FALSE /\ task' \in Nat
         /\ noCode' = 0 /\ warnings' = 0
         /\ ans' = NoAnswer /\ ns' = NoAnswer
<1>1. task' \in Nat /\ frames' = Append(stack, NewFrame(task')) /\ pc' = "check"
  BY DEF TypeOK, BeginTurn
<1>2. NewFrame(task') \in Frame
  BY <1>1, NewFrameType
<1>3. frames' \in Seq(Frame) /\ frames' # <<>>
  BY <1>1, <1>2, PushFacts
<1>4. turnActive' = TRUE /\ reply' \in Reply
  BY DEF BeginTurn, TypeOK
<1>5. /\ tail' = "user" /\ forceEnd' = FALSE
      /\ noCode' = 0 /\ warnings' = 0
      /\ ans' = NoAnswer /\ ns' = NoAnswer
  BY DEF BeginTurn, ResetStreaks, ResetAnswer
<1> QED BY <1>1, <1>3, <1>4, <1>5 DEF TurnTypes, Busy, PCs

LEMMA IterationFailsTypes ==
  ASSUME TypeOK, Busy, NEW a \in Answer, NEW pending \in BOOLEAN,
         IterationFails(a, pending)
  PROVE  TurnTypes' /\ tail' \in {"user", "assistant"} /\ cleanupPending' \in BOOLEAN
<1> DEFINE f == FailedOnce(Top)
<1>1. f \in Frame
  BY TopType, FrameUpdates
<1>2. CASE f.errors >= MaxErrors
  <2>1. ForceEnd("errors", a, FALSE)
    BY <1>2 DEF IterationFails
  <2> QED BY <2>1, ForceEndTypes DEF Endings
<1>3. CASE ~(f.errors >= MaxErrors)
  <2>1. /\ frames' = SetTop(f) /\ tail' = "user" /\ pc' = "check"
        /\ cleanupPending' = pending /\ UNCHANGED <<reply, turnActive>>
    BY <1>3 DEF IterationFails
  <2> HIDE DEF f
  <2> QED BY <1>1, <2>1, SetTopTypes DEF PCs, TypeOK
<1> QED BY <1>2, <1>3

\* The rest of TypeOK.
DataTypes ==
  /\ ans \in Answer /\ ns \in Answer
  /\ tail \in {"system", "user", "assistant"}
  /\ cleanupPending \in BOOLEAN /\ forceEnd \in BOOLEAN
  /\ interrupted \in BOOLEAN /\ exitReq \in BOOLEAN
  /\ noCode \in Nat /\ warnings \in Nat
  /\ segs \in Seq(Nat \ {0})
  /\ queue \in Seq(Command) /\ cmds \in Seq(Command)
  /\ steer \in Command \cup {Waiting}
  /\ task \in Nat /\ requests \in Nat /\ sent \in Nat

LEMMA TypeSplit == TypeOK <=> TurnTypes /\ DataTypes
BY DEF TypeOK, TurnTypes, DataTypes

LEMMA RequestTypes ==
  ASSUME TypeOK, NEW k \in 1..MaxSegments, Request(k)
  PROVE  TypeOK'
<1>1. <<>> \in Seq(Frame) /\ BeginTurn(<<>>) /\ UNCHANGED reply
  BY DEF Request
<1>2. /\ TurnTypes'
      /\ tail' = "user" /\ forceEnd' = FALSE /\ task' \in Nat
      /\ noCode' = 0 /\ warnings' = 0
      /\ ans' = NoAnswer /\ ns' = NoAnswer
  BY <1>1, BeginTurnTypes
<1>3. segs' \in Seq(Nat \ {0})
  <2>1. k \in Nat /\ k >= 1
    BY LoopAssumption
  <2>2. CASE k > 1
    <3>1. k - 1 \in Nat \ {0} /\ segs' = Append(segs, k - 1)
      BY <2>1, <2>2 DEF Request
    <3> QED BY <3>1 DEF TypeOK
  <2>3. CASE ~(k > 1)
    BY <2>3 DEF Request, TypeOK
  <2> QED BY <2>2, <2>3
<1>4. /\ requests' \in Nat /\ interrupted' = FALSE
      /\ UNCHANGED <<cleanupPending, exitReq, queue, cmds, steer, sent>>
  BY LoopAssumption DEF Request, TypeOK, steerVars
<1>5. DataTypes'
  BY <1>2, <1>3, <1>4, AnswerTypes DEF TypeOK, DataTypes, Command, Waiting
<1> QED BY <1>2, <1>5, TypeSplit DEF TypeOK, TurnTypes, DataTypes

LEMMA CheckAndDrainTypes ==
  ASSUME TypeOK, CheckAndDrain
  PROVE  TypeOK'
<1>1. Busy /\ pc = "check"
  BY DEF CheckAndDrain, Busy
<1>2. UNCHANGED <<ans, ns, noCode, warnings, interrupted, exitReq, requests,
                  sent, steer, forceEnd, segs, task>>
  BY DEF CheckAndDrain, answerVars, streakVars, flagVars, boundVars
<1>3. CASE EndRequested /\ ForceEnd("interrupted", ans, FALSE) /\ UNCHANGED <<queue, cmds>>
  <2>1. TurnTypes' /\ tail' = "assistant" /\ cleanupPending' = TRUE
    BY <1>1, <1>3, ForceEndTypes DEF Endings, TypeOK
  <2> QED BY <1>2, <1>3, <2>1 DEF TypeOK, TurnTypes
<1>4. CASE /\ cmds' = queue /\ queue' = <<>> /\ pc' = "dispatch"
           /\ UNCHANGED <<frames, reply, turnActive, tail, cleanupPending>>
  BY <1>1, <1>2, <1>4 DEF TypeOK, Busy, PCs
<1> QED BY <1>3, <1>4 DEF CheckAndDrain

LEMMA DispatchTypes ==
  ASSUME TypeOK, Dispatch
  PROVE  TypeOK'
<1>1. cmds' \in Seq(Command)
  BY DEF Dispatch, TypeOK
<1>2. UNCHANGED <<pc, frames, reply, turnActive, ans, ns, requests, sent, noCode,
                  interrupted, queue, steer, cleanupPending, segs>>
  BY DEF Dispatch, turnVars, answerVars, boundVars
<1>3. /\ tail' \in {"system", "user", "assistant"}
      /\ forceEnd' \in BOOLEAN /\ exitReq' \in BOOLEAN
      /\ warnings' \in Nat /\ task' \in Nat
  BY DEF Dispatch, TypeOK
<1> QED BY <1>1, <1>2, <1>3 DEF TypeOK, Busy

LEMMA StartIterationTypes ==
  ASSUME TypeOK, StartIteration
  PROVE  TypeOK'
<1>1. Busy /\ pc = "dispatch"
  BY DEF StartIteration, Busy
<1>2. UNCHANGED <<ans, ns, noCode, warnings, interrupted, exitReq, queue, cmds,
                  steer, requests, sent, forceEnd, segs, task>>
  BY DEF StartIteration, answerVars, streakVars, flagVars, steerVars, boundVars
<1>3. ASSUME NEW how \in Endings, NEW reason \in BOOLEAN, ForceEnd(how, ans, reason)
      PROVE  TypeOK'
  <2>1. TurnTypes' /\ tail' = "assistant" /\ cleanupPending' = TRUE
    BY <1>1, <1>3, ForceEndTypes DEF TypeOK
  <2> QED BY <1>2, <2>1 DEF TypeOK, TurnTypes
<1>4. CASE ForceEnd("interrupted", ans, FALSE)
  BY <1>3, <1>4 DEF Endings
<1>5. CASE ForceEnd("max_turns", ans, ans.content = Nothing)
  BY <1>3, <1>5 DEF Endings
<1>6. CASE /\ frames' = SetTop([Top EXCEPT !.turns = @ + 1, !.counted = FALSE,
                                           !.barren = @ + 1,
                                           !.afterStop = IF forceEnd THEN @ + 1 ELSE 0])
           /\ pc' = "call"
           /\ UNCHANGED <<reply, turnActive, tail, cleanupPending>>
  <2> DEFINE f == [Top EXCEPT !.turns = @ + 1, !.counted = FALSE, !.barren = @ + 1,
                              !.afterStop = IF forceEnd THEN @ + 1 ELSE 0]
  <2>1. f \in Frame
    <3>1. /\ Top \in Frame
          /\ Top.turns + 1 \in Nat /\ Top.barren + 1 \in Nat
          /\ (IF forceEnd THEN Top.afterStop + 1 ELSE 0) \in Nat
      BY <1>1, TopType DEF Frame
    <3>2. f = [Top EXCEPT !.turns = Top.turns + 1, !.counted = FALSE,
                          !.barren = Top.barren + 1,
                          !.afterStop = IF forceEnd THEN Top.afterStop + 1 ELSE 0]
      BY <3>1 DEF Frame
    <3> QED BY <3>1, <3>2 DEF Frame
  <2>2. TurnTypes'
    <3>1. frames' = SetTop(f) /\ pc' = "call" /\ UNCHANGED <<reply, turnActive>>
      BY <1>6
    <3> HIDE DEF f
    <3> QED BY <1>1, <2>1, <3>1, SetTopTypes DEF PCs
  <2> QED BY <1>2, <1>6, <2>2 DEF TypeOK, TurnTypes
<1> QED BY <1>4, <1>5, <1>6 DEF StartIteration

LEMMA RepliesTypes ==
  ASSUME TypeOK, NEW kind \in {"run", "prose"}, Replies(kind)
  PROVE  TypeOK'
BY DEF TypeOK, Replies, Busy, PCs, answerVars, streakVars, flagVars, steerVars, boundVars

LEMMA CallFailsTypes ==
  ASSUME TypeOK, CallFails
  PROVE  TypeOK'
<1>1. Busy
  BY DEF CallFails, Busy
<1>2. TurnTypes' /\ tail' \in {"user", "assistant"} /\ cleanupPending' \in BOOLEAN
  BY <1>1, IterationFailsTypes DEF CallFails, TypeOK
<1>3. UNCHANGED <<ans, ns, noCode, warnings, interrupted, exitReq, queue, cmds,
                  steer, requests, sent, forceEnd, segs, task>>
  BY DEF CallFails, answerVars, streakVars, flagVars, steerVars, boundVars
<1> QED BY <1>2, <1>3 DEF TypeOK, TurnTypes

LEMMA RunCodeTypes ==
  ASSUME TypeOK, NEW outcome \in Outcomes, RunCode(outcome)
  PROVE  TypeOK'
<1>1. Busy
  BY DEF RunCode, Busy
<1>2. ans' \in Answer /\ ns' \in Answer
  BY AnswerTypes DEF RunCode
<1>3. noCode' \in Nat /\ warnings' \in Nat
  BY DEF RunCode, TypeOK
<1>4. UNCHANGED <<interrupted, exitReq, queue, cmds, steer, requests, sent,
                  forceEnd, segs, task>>
  BY DEF RunCode, flagVars, steerVars, boundVars
<1> DEFINE f == AfterRun(Top, outcome)
<1>5. f \in Frame
  BY <1>1, TopType, FrameUpdates
<1>6. CASE f.errors >= MaxErrors
  <2>1. ForceEnd("errors", ans', FALSE)
    BY <1>6 DEF RunCode
  <2>2. TurnTypes' /\ tail' = "assistant" /\ cleanupPending' = TRUE
    <3>1. PICK b \in Answer : ForceEnd("errors", b, FALSE)
      BY <1>2, <2>1 DEF ForceEnd, Return
    <3> QED BY <1>1, <3>1, ForceEndTypes DEF Endings
  <2> QED BY <1>2, <1>3, <1>4, <2>2 DEF TypeOK, TurnTypes
<1>7. CASE ~(f.errors >= MaxErrors)
  <2>1. /\ frames' = SetTop(f) /\ pc' = "feedback"
        /\ UNCHANGED <<reply, turnActive, tail, cleanupPending>>
    BY <1>7 DEF RunCode
  <2>2. TurnTypes'
    <3> HIDE DEF f
    <3> QED BY <1>1, <1>5, <2>1, SetTopTypes DEF PCs
  <2> QED BY <1>2, <1>3, <1>4, <2>1, <2>2 DEF TypeOK, TurnTypes
<1> QED BY <1>6, <1>7

LEMMA NoCodeTypes ==
  ASSUME TypeOK, NoCode
  PROVE  TypeOK'
<1>1. Busy
  BY DEF NoCode, Busy
<1>2. noCode' \in Nat
  BY DEF NoCode, TypeOK
<1>3. UNCHANGED <<ans, ns, interrupted, exitReq, queue, cmds, steer, requests,
                  sent, warnings, forceEnd, segs, task>>
  BY DEF NoCode, answerVars, flagVars, steerVars, boundVars
<1>4. CASE ForceEnd("no_code", ans, FALSE)
  <2>1. TurnTypes' /\ tail' = "assistant" /\ cleanupPending' = TRUE
    BY <1>1, <1>4, ForceEndTypes DEF Endings, TypeOK
  <2> QED BY <1>2, <1>3, <2>1 DEF TypeOK, TurnTypes
<1>5. CASE /\ frames' = SetTop([Top EXCEPT !.prose = @ + 1])
           /\ pc' = "feedback"
           /\ UNCHANGED <<reply, turnActive, tail, cleanupPending>>
  <2> DEFINE f == [Top EXCEPT !.prose = @ + 1]
  <2>1. f \in Frame
    <3>1. Top \in Frame /\ Top.prose + 1 \in Nat
      BY <1>1, TopType DEF Frame
    <3>2. f = [Top EXCEPT !.prose = Top.prose + 1]
      BY <3>1 DEF Frame
    <3> QED BY <3>1, <3>2 DEF Frame
  <2>2. frames' = SetTop(f)
    BY <1>5
  <2> HIDE DEF f
  <2>3. TurnTypes'
    BY <1>1, <1>5, <2>1, <2>2, SetTopTypes DEF PCs
  <2> QED BY <1>2, <1>3, <1>5, <2>3 DEF TypeOK, TurnTypes
<1> QED BY <1>4, <1>5 DEF NoCode

\* The gate with a pending segment: a nested turn, or a resumed one.
LEMMA NextSegmentTypes ==
  ASSUME TypeOK, Busy, segs # <<>>,
         NEW a \in Answer, NEW n \in Answer, NEW total \in Nat,
         NextSegment(a, n, total)
  PROVE  /\ TurnTypes'
         /\ segs' \in Seq(Nat \ {0})
         /\ tail' \in {"user", "assistant"} /\ forceEnd' \in BOOLEAN
         /\ ans' \in Answer /\ ns' \in Answer
         /\ noCode' \in Nat /\ warnings' \in Nat /\ task' \in Nat
<1>1. segs' \in Seq(Nat \ {0}) /\ UNCHANGED reply
  BY PopSegmentType DEF NextSegment, TypeOK
<1>2. CASE BeginTurn(frames)
  <2>1. frames \in Seq(Frame)
    BY DEF TypeOK
  <2>2. /\ TurnTypes'
        /\ tail' = "user" /\ forceEnd' = FALSE /\ task' \in Nat
        /\ noCode' = 0 /\ warnings' = 0
        /\ ans' = NoAnswer /\ ns' = NoAnswer
    BY <1>1, <1>2, <2>1, BeginTurnTypes
  <2> QED BY <1>1, <2>2, AnswerTypes
<1>3. CASE /\ tail' = "assistant" /\ pc' = "check"
           /\ frames' = SetTop(Resume(Top))
           /\ ans' = a /\ ns' = n
           /\ UNCHANGED <<turnActive, forceEnd, noCode, task>>
           /\ warnings' = total
  <2>1. Resume(Top) \in Frame
    BY TopType, FrameUpdates
  <2>2. TurnTypes'
    BY <1>1, <1>3, <2>1, SetTopTypes DEF PCs
  <2> QED BY <1>1, <1>3, <2>2 DEF TypeOK
<1> QED BY <1>2, <1>3 DEF NextSegment

LEMMA FeedbackTypes ==
  ASSUME TypeOK, NEW multi \in BOOLEAN, NEW stagnant \in BOOLEAN,
         Feedback(multi, stagnant)
  PROVE  TypeOK'
<1> DEFINE a == AfterEOT(ans, multi)
           n == AfterEOT(ns, multi)
           total == IF stagnant THEN warnings + 1 ELSE warnings
<1>1. Busy
  BY DEF Feedback, Busy
<1>2. a \in Answer /\ n \in Answer /\ total \in Nat
  BY AnswerTypes DEF TypeOK
<1>3. UNCHANGED <<interrupted, exitReq, queue, cmds, steer, requests, sent>>
  BY DEF Feedback, flagVars, steerVars, boundVars
<1>4. CASE /\ ans' = a /\ ns' = n /\ warnings' = total
           /\ \/ ForceEnd("loop", a, FALSE)
              \/ IterationFails(a, TRUE)
           /\ UNCHANGED <<noCode, segs, forceEnd, task>>
  <2>1. TurnTypes' /\ tail' \in {"user", "assistant"} /\ cleanupPending' \in BOOLEAN
    <3> HIDE DEF a
    <3> QED BY <1>1, <1>2, <1>4, ForceEndTypes, IterationFailsTypes DEF Endings
  <2> QED BY <1>2, <1>3, <1>4, <2>1 DEF TypeOK, TurnTypes
<1>5. CASE cleanupPending' = TRUE /\ segs # <<>> /\ NextSegment(a, n, total)
  <2> HIDE DEF a, n, total
  <2> QED BY <1>1, <1>2, <1>3, <1>5, NextSegmentTypes DEF TypeOK, TurnTypes
<1>6. CASE /\ ans' = a /\ ns' = n /\ warnings' = total
           /\ cleanupPending' = TRUE
           /\ tail' = "assistant"
           /\ Return("answer", a.content, FALSE)
           /\ UNCHANGED <<segs, forceEnd, noCode, task>>
  <2>1. a.content \in Nat
    BY <1>2 DEF Answer
  <2>2. TurnTypes'
    <3> HIDE DEF a
    <3> QED BY <1>1, <1>6, <2>1, ReturnTypes DEF Endings
  <2> QED BY <1>2, <1>3, <1>6, <2>2 DEF TypeOK, TurnTypes
<1>7. CASE /\ ans' = a /\ ns' = n /\ warnings' = total
           /\ FeedbackMessage /\ pc' = "check"
           /\ UNCHANGED <<frames, reply, turnActive, cleanupPending, noCode,
                          segs, forceEnd, task>>
  BY <1>1, <1>2, <1>3, <1>7 DEF TypeOK, Busy, PCs, FeedbackMessage
<1> QED BY <1>4, <1>5, <1>6, <1>7 DEF Feedback

\* Every variable keeps its type: the loop never loses track of the stack of
\* activations, whatever nests, fails or is interrupted.
THEOREM TypeCorrect == Spec => []TypeOK
<1>1. Init => TypeOK
  <2> SUFFICES ASSUME Init PROVE TypeOK
    OBVIOUS
  <2>1. reply \in Reply /\ ans \in Answer /\ ns \in Answer
    BY DEF Init, Reply, NoReply, Nothing, Answer, NoAnswer
  <2>2. frames \in Seq(Frame) /\ segs \in Seq(Nat \ {0})
    BY DEF Init
  <2>3. queue \in Seq(Command) /\ cmds \in Seq(Command)
    BY DEF Init
  <2>4. pc \in PCs /\ ~Busy /\ tail \in {"system", "user", "assistant"}
    BY DEF Init, PCs, Busy
  <2>5. /\ cleanupPending \in BOOLEAN /\ forceEnd \in BOOLEAN
        /\ turnActive \in BOOLEAN /\ interrupted \in BOOLEAN /\ exitReq \in BOOLEAN
        /\ noCode \in Nat /\ warnings \in Nat
        /\ steer \in Command \cup {Waiting}
        /\ task \in Nat /\ requests \in Nat /\ sent \in Nat
    BY DEF Init
  <2> QED BY <2>1, <2>2, <2>3, <2>4, <2>5 DEF TypeOK
<1>2. TypeOK /\ [Next]_vars => TypeOK'
  <2> SUFFICES ASSUME TypeOK, [Next]_vars PROVE TypeOK'
    OBVIOUS
  <2>1. CASE \E k \in 1..MaxSegments : Request(k)
    BY <2>1, RequestTypes
  <2>2. CASE Exit
    BY <2>2 DEF TypeOK, Exit, Busy, PCs, answerVars, streakVars, flagVars,
                steerVars, boundVars
  <2>3. CASE LoopStep
    BY <2>3, CheckAndDrainTypes, DispatchTypes, StartIterationTypes, RepliesTypes,
       CallFailsTypes, RunCodeTypes, NoCodeTypes, FeedbackTypes DEF LoopStep
  <2>4. CASE \E c \in Commands : SteerRead(c)
    BY <2>4 DEF TypeOK, SteerRead, Command, Busy, turnVars, answerVars, streakVars,
                flagVars
  <2>5. CASE SteerSend
    BY <2>5 DEF TypeOK, SteerSend, Waiting, Busy, turnVars, answerVars,
                streakVars, flagVars, boundVars
  <2>6. CASE Interrupt
    BY <2>6 DEF TypeOK, Interrupt, Busy, PCs, answerVars, streakVars, steerVars,
                boundVars
  <2>7. CASE UNCHANGED vars
    BY <2>7 DEF vars, turnVars, answerVars, streakVars, flagVars, steerVars,
                boundVars, TypeOK, Busy
  <2> QED BY <2>1, <2>2, <2>3, <2>4, <2>5, <2>6, <2>7 DEF Next
<1> QED BY <1>1, <1>2, PTL DEF Spec

-----------------------------------------------------------------------------
(* The contract of a turn                                                  *)

\* Between turns no request waits at the end of the context; inside one the
\* first request is there.
Closed ==
  /\ pc = "idle" => tail # "user" /\ (requests > 0 => tail = "assistant")
  /\ Busy => tail # "system"

\* A Return that leaves an assistant message behind keeps the context closed.
LEMMA ReturnClosed ==
  ASSUME NEW how, NEW content, NEW reason,
         Return(how, content, reason), tail' = "assistant"
  PROVE  Closed' /\ pc' \in {"idle", "check"} /\ tail' = "assistant"
BY DEF Return, Closed

LEMMA FailureClosed ==
  ASSUME NEW a, NEW pending, IterationFails(a, pending)
  PROVE  /\ Closed' /\ pc' \in {"idle", "check"}
         /\ pc' = "idle" => tail' = "assistant"
<1> DEFINE f == FailedOnce(Top)
<1>1. CASE f.errors >= MaxErrors
  BY <1>1, ReturnClosed DEF IterationFails, ForceEnd
<1>2. CASE ~(f.errors >= MaxErrors)
  BY <1>2 DEF IterationFails, Closed
<1> QED BY <1>1, <1>2

\* What a step of the loop does to the outside: it stays inside the turn
\* with a request or a reply in the context, or it ends it with a reply.
LEMMA LoopStepClosed ==
  ASSUME Closed, TypeOK, LoopStep
  PROVE  /\ Busy /\ Closed' /\ pc' # "exited"
         /\ pc' = "idle" => tail' = "assistant"
<1>1. CASE CheckAndDrain
  BY <1>1, ReturnClosed DEF CheckAndDrain, ForceEnd, Closed, Busy
<1>2. CASE Dispatch
  BY <1>2 DEF Dispatch, Closed, Busy, turnVars
<1>3. CASE StartIteration
  BY <1>3, ReturnClosed DEF StartIteration, ForceEnd, Closed, Busy
<1>4. ASSUME NEW kind \in {"run", "prose"}, Replies(kind)
      PROVE  Busy /\ Closed' /\ pc' \notin {"exited", "idle"}
  BY <1>4 DEF Replies, Closed, Busy
<1>5. CASE CallFails
  BY <1>5, FailureClosed DEF CallFails, Busy
<1>6. ASSUME NEW outcome \in Outcomes, RunCode(outcome)
      PROVE  Busy /\ Closed' /\ pc' # "exited" /\ (pc' = "idle" => tail' = "assistant")
  <2>1. Busy /\ tail # "system"
    BY <1>6 DEF RunCode, Busy, Closed
  <2> DEFINE f == AfterRun(Top, outcome)
  <2>2. CASE f.errors >= MaxErrors
    BY <1>6, <2>1, <2>2, ReturnClosed DEF RunCode, ForceEnd
  <2>3. CASE ~(f.errors >= MaxErrors)
    BY <1>6, <2>1, <2>3 DEF RunCode, Closed, Busy
  <2> QED BY <2>2, <2>3
<1>7. CASE NoCode
  BY <1>7, ReturnClosed DEF NoCode, ForceEnd, Closed, Busy
<1>8. ASSUME NEW multi \in BOOLEAN, NEW stagnant \in BOOLEAN, Feedback(multi, stagnant)
      PROVE  Busy /\ Closed' /\ pc' # "exited" /\ (pc' = "idle" => tail' = "assistant")
  <2> DEFINE a == AfterEOT(ans, multi)
             n == AfterEOT(ns, multi)
             total == IF stagnant THEN warnings + 1 ELSE warnings
  <2>1. Busy
    BY <1>8 DEF Feedback, Busy
  <2>2. CASE ForceEnd("loop", a, FALSE) \/ IterationFails(a, TRUE)
    BY <2>1, <2>2, ReturnClosed, FailureClosed DEF ForceEnd
  <2>3. CASE NextSegment(a, n, total)
    BY <2>1, <2>3 DEF NextSegment, BeginTurn, Closed, Busy
  <2>4. CASE tail' = "assistant" /\ Return("answer", a.content, FALSE)
    BY <2>1, <2>4, ReturnClosed
  <2>5. CASE FeedbackMessage /\ pc' = "check"
    BY <2>1, <2>5 DEF FeedbackMessage, Closed, Busy
  <2> QED BY <1>8, <2>2, <2>3, <2>4, <2>5 DEF Feedback
<1> QED BY <1>1, <1>2, <1>3, <1>4, <1>5, <1>6, <1>7, <1>8 DEF LoopStep

LEMMA ClosedInductive ==
  ASSUME Closed, TypeOK, [Next]_vars
  PROVE  Closed'
<1>1. ASSUME NEW k \in 1..MaxSegments, Request(k) PROVE Closed'
  BY <1>1 DEF Request, BeginTurn, Closed, Busy
<1>2. CASE Exit
  BY <1>2 DEF Exit, Closed, Busy, boundVars
<1>3. CASE LoopStep
  BY <1>3, LoopStepClosed
<1>4. CASE (\E c \in Commands : SteerRead(c)) \/ SteerSend
  BY <1>4 DEF SteerRead, SteerSend, Closed, Busy, turnVars, boundVars
<1>5. CASE Interrupt
  BY <1>5 DEF Interrupt, Closed, Busy, boundVars
<1>6. CASE UNCHANGED vars
  BY <1>6 DEF vars, turnVars, boundVars, Closed, Busy
<1> QED BY <1>1, <1>2, <1>3, <1>4, <1>5, <1>6 DEF Next

LEMMA ClosedAlways == Spec => [](Closed /\ TypeOK)
<1>1. Init => Closed
  BY DEF Init, Closed, Busy
<1> QED BY <1>1, ClosedInductive, TypeCorrect, PTL DEF Spec

\* Between turns the context ends with an assistant message, whatever ended
\* the last turn.
THEOREM TurnsAreClosed == Spec => []TurnClosed
<1>1. Closed => TurnClosed
  BY DEF Closed, TurnClosed
<1> QED BY <1>1, ClosedAlways, PTL

\* The loop implements the safety of the contract: a request only lands on a
\* closed context, the end of a turn closes it, and nothing else ends a turn
\* but the death of the process.
THEOREM ContractSafety == Spec => Contract!Init /\ [][Contract!Next]_(Contract!vars)
<1>1. Init => Contract!Init
  BY DEF Init, Contract!Init
<1>2. ASSUME Closed, TypeOK, Closed', TypeOK', [Next]_vars
      PROVE  [Contract!Next]_(Contract!vars)
  <2> USE DEF Contract!Next, Contract!vars, Contract!Begin, Contract!Work,
              Contract!End, Contract!Leave, Contract!Kill
  <2>1. ASSUME NEW k \in 1..MaxSegments, Request(k) PROVE Contract!Begin
    BY <1>2, <2>1 DEF Request, BeginTurn, Closed
  <2>2. CASE Exit
    BY <2>2 DEF Exit
  <2>3. CASE LoopStep
    <3>1. pc \notin {"idle", "exited"} /\ pc' # "exited" /\ (pc' = "idle" => tail' = "assistant")
      BY <1>2, <2>3, LoopStepClosed DEF Busy
    <3>2. pc' # "idle" => tail' \in {"user", "assistant"}
      BY <1>2, <3>1 DEF TypeOK, Closed, Busy
    <3> QED BY <3>1, <3>2
  <2>4. CASE (\E c \in Commands : SteerRead(c)) \/ SteerSend
    BY <2>4 DEF SteerRead, SteerSend, turnVars
  <2>5. CASE Interrupt
    BY <2>5 DEF Interrupt
  <2>6. CASE UNCHANGED vars
    BY <2>6 DEF vars, turnVars
  <2> QED BY <1>2, <2>1, <2>2, <2>3, <2>4, <2>5, <2>6 DEF Next
<1> QED BY <1>1, <1>2, ClosedAlways, PTL DEF Spec

-----------------------------------------------------------------------------
(* Exit requests                                                           *)

LEMMA ExitInductive ==
  ASSUME ExitStopsCalls, [Next]_vars
  PROVE  ExitStopsCalls'
<1> USE DEF ExitStopsCalls
<1>1. ASSUME NEW how, NEW content, NEW reason, Return(how, content, reason)
      PROVE  ExitStopsCalls'
  BY <1>1 DEF Return
<1>2. ASSUME NEW a, NEW pending, IterationFails(a, pending) PROVE ExitStopsCalls'
  BY <1>1, <1>2 DEF IterationFails, ForceEnd
<1>3. ASSUME NEW k \in 1..MaxSegments, Request(k) PROVE ExitStopsCalls'
  BY <1>3 DEF Request, BeginTurn
<1>4. CASE Exit
  BY <1>4 DEF Exit
<1>5. CASE CheckAndDrain
  BY <1>1, <1>5 DEF CheckAndDrain, ForceEnd
<1>6. CASE Dispatch
  BY <1>6 DEF Dispatch, turnVars
<1>7. CASE StartIteration
  BY <1>1, <1>7 DEF StartIteration, ForceEnd, EndRequested, flagVars
<1>8. ASSUME NEW kind \in {"run", "prose"}, Replies(kind) PROVE ExitStopsCalls'
  BY <1>8 DEF Replies, flagVars
<1>9. CASE CallFails
  BY <1>2, <1>9 DEF CallFails
<1>10. ASSUME NEW outcome \in Outcomes, RunCode(outcome) PROVE ExitStopsCalls'
  <2> DEFINE f == AfterRun(Top, outcome)
  <2>1. CASE f.errors >= MaxErrors
    BY <1>1, <1>10, <2>1 DEF RunCode, ForceEnd
  <2>2. CASE ~(f.errors >= MaxErrors)
    BY <1>10, <2>2 DEF RunCode, flagVars
  <2> QED BY <2>1, <2>2
<1>11. CASE NoCode
  BY <1>1, <1>11 DEF NoCode, ForceEnd, flagVars
<1>12. ASSUME NEW multi \in BOOLEAN, NEW stagnant \in BOOLEAN, Feedback(multi, stagnant)
       PROVE  ExitStopsCalls'
  <2>1. ASSUME NEW a, NEW n, NEW total, NextSegment(a, n, total) PROVE pc' = "check"
    BY <2>1 DEF NextSegment, BeginTurn
  <2> QED BY <1>1, <1>2, <1>12, <2>1 DEF Feedback, ForceEnd
<1>13. CASE (\E c \in Commands : SteerRead(c)) \/ SteerSend
  BY <1>13 DEF SteerRead, SteerSend, turnVars, flagVars
<1>14. CASE Interrupt
  BY <1>14 DEF Interrupt
<1>15. CASE UNCHANGED vars
  BY <1>15 DEF vars, turnVars, flagVars
<1> QED BY <1>3, <1>4, <1>5, <1>6, <1>7, <1>8, <1>9, <1>10, <1>11, <1>12, <1>13,
           <1>14, <1>15 DEF Next, LoopStep

\* Once an exit is requested nothing is sent to the LLM or executed: every
\* path to a call passes a lifecycle check after the last drained command.
THEOREM ExitStops == Spec => []ExitStopsCalls
<1>1. Init => ExitStopsCalls
  BY DEF Init, ExitStopsCalls
<1> QED BY <1>1, ExitInductive, PTL DEF Spec

-----------------------------------------------------------------------------
(* The running activation after a step                                     *)

LEMMA TopAfterSet ==
  ASSUME TypeOK, Busy, NEW f \in Frame, frames' = SetTop(f)
  PROVE  /\ Top' = f /\ Len(frames') = Len(frames)
         /\ frames' # <<>>
         /\ f.base = Top.base => frames'[1].base = frames[1].base
<1>1. Len(frames) \in Nat /\ Len(frames) >= 1
  BY TopType
<1>2. Top' = frames'[Len(frames')]
  BY DEF Top
<1>3. /\ Len(frames') = Len(frames) /\ frames'[Len(frames)] = f
      /\ frames' # <<>>
      /\ \A i \in 1..Len(frames) : i # Len(frames) => frames'[i] = frames[i]
  BY SetTopFacts
<1>4. CASE Len(frames) = 1
  BY <1>2, <1>3, <1>4 DEF Top
<1>5. CASE Len(frames) # 1
  BY <1>1, <1>2, <1>3, <1>5
<1> QED BY <1>4, <1>5

LEMMA TopAfterReturn ==
  ASSUME TypeOK, Busy,
         NEW how \in Endings, NEW content \in Nat, NEW reason \in BOOLEAN,
         Return(how, content, reason)
  PROVE  /\ pc' \in {"idle", "check"}
         /\ pc' = "check" => Top'.resumed /\ frames'[1].base = frames[1].base
<1>1. /\ Len(frames) \in Nat /\ Len(frames') = Len(frames) - 1
      /\ frames' \in Seq(Frame) /\ pc' \in {"idle", "check"}
      /\ pc' = "idle" <=> frames' = <<>>
      /\ pc' = "check" => frames'[Len(frames')].resumed
      /\ \A i \in 1..Len(frames') : frames'[i].base = frames[i].base
  BY ReturnFacts, TopType
<1>2. pc' = "check" => Len(frames') >= 1
  BY <1>1
<1> QED BY <1>1, <1>2 DEF Top

LEMMA TopAfterFailure ==
  ASSUME TypeOK, Busy, NEW a \in Answer, NEW pending \in BOOLEAN,
         IterationFails(a, pending)
  PROVE  /\ pc' \in {"idle", "check"}
         /\ pc' = "check" => /\ Top'.resumed \/ Top' = FailedOnce(Top)
                             /\ frames'[1].base = frames[1].base
<1> DEFINE f == FailedOnce(Top)
<1>1. f \in Frame /\ f.base = Top.base
  <2>1. Top \in Frame
    BY TopType
  <2>2. Failed(Top).base = Top.base
    BY <2>1 DEF Frame, Failed
  <2> QED BY <2>1, <2>2, FrameUpdates DEF FailedOnce
<1>2. CASE f.errors >= MaxErrors
  <2>1. a.content \in Nat /\ Return("errors", a.content, FALSE)
    BY <1>2 DEF IterationFails, ForceEnd, Answer
  <2> QED BY <2>1, TopAfterReturn DEF Endings
<1>3. CASE ~(f.errors >= MaxErrors)
  <2>1. frames' = SetTop(f) /\ pc' = "check"
    BY <1>3 DEF IterationFails
  <2>2. Top' = f /\ frames'[1].base = frames[1].base
    <3> HIDE DEF f
    <3> QED BY <1>1, <2>1, TopAfterSet
  <2> QED BY <2>1, <2>2
<1> QED BY <1>2, <1>3

\* The frames StartIteration, RunCode and NoCode put in place of the top one.
LEMMA TopAfterCount ==
  ASSUME NEW f \in Frame, NEW outcome \in Outcomes
  PROVE  /\ Failed(f) \in Frame
         /\ Failed(f).base = f.base /\ Failed(f).resumed = f.resumed
         /\ Failed(f).prose = f.prose /\ Failed(f).barren = f.barren
         /\ Failed(f).errors = f.errors + 1 /\ Failed(f).counted
         /\ AfterRun(f, outcome).base = f.base
         /\ AfterRun(f, outcome).resumed = f.resumed
<1>1. /\ Failed(f) \in Frame
      /\ Failed(f).base = f.base /\ Failed(f).resumed = f.resumed
      /\ Failed(f).prose = f.prose /\ Failed(f).barren = f.barren
      /\ Failed(f).errors = f.errors + 1 /\ Failed(f).counted
  BY FrameUpdates DEF Frame, Failed
<1>2. \A g \in Frame : /\ [g EXCEPT !.prose = 0].base = g.base
                        /\ [g EXCEPT !.prose = 0].resumed = g.resumed
  BY DEF Frame
<1>3. CASE outcome \in Failures
  BY <1>1, <1>2, <1>3 DEF AfterRun
<1>4. CASE outcome \notin Failures
  BY <1>1, <1>4 DEF AfterRun, Frame
<1> QED BY <1>1, <1>3, <1>4

LEMMA TopAfterStart ==
  ASSUME TypeOK, StartIteration, pc' = "call"
  PROVE  /\ Top' = [Top EXCEPT !.turns = Top.turns + 1, !.counted = FALSE,
                               !.barren = Top.barren + 1,
                               !.afterStop = IF forceEnd THEN Top.afterStop + 1 ELSE 0]
         /\ Top' \in Frame
         /\ frames' = SetTop(Top')
         /\ frames'[1].base = frames[1].base
<1>1. Busy /\ pc = "dispatch"
  BY DEF StartIteration, Busy
<1>2. Top \in Frame
  BY <1>1, TopType
<1> DEFINE f == [Top EXCEPT !.turns = Top.turns + 1, !.counted = FALSE,
                            !.barren = Top.barren + 1,
                            !.afterStop = IF forceEnd THEN Top.afterStop + 1 ELSE 0]
<1>3. f \in Frame /\ f.base = Top.base
  <2>1. /\ Top.turns + 1 \in Nat /\ Top.barren + 1 \in Nat
        /\ (IF forceEnd THEN Top.afterStop + 1 ELSE 0) \in Nat
    BY <1>2 DEF Frame
  <2> QED BY <1>2, <2>1 DEF Frame
<1>4. frames' = SetTop(f)
  <2>1. \A how, a, reason : ~ForceEnd(how, a, reason)
    BY DEF ForceEnd, Return
  <2>2. frames' = SetTop([Top EXCEPT !.turns = @ + 1, !.counted = FALSE,
                                     !.barren = @ + 1,
                                     !.afterStop = IF forceEnd THEN @ + 1 ELSE 0])
    BY <2>1 DEF StartIteration
  <2> QED BY <1>2, <2>2 DEF Frame
<1>5. Top' = f /\ frames'[1].base = frames[1].base
  <2> HIDE DEF f
  <2> QED BY <1>1, <1>3, <1>4, TopAfterSet
<1> QED BY <1>3, <1>4, <1>5

-----------------------------------------------------------------------------
(* A ready answer is acted upon at once                                    *)

LEMMA ReadyInductive ==
  ASSUME ReadyFresh, TypeOK, [Next]_vars
  PROVE  ReadyFresh'
<1> USE DEF ReadyFresh
<1>1. ASSUME NEW how \in Endings, NEW a \in Answer, NEW reason \in BOOLEAN, Busy,
             ForceEnd(how, a, reason)
      PROVE  ReadyFresh'
  <2>1. a.content \in Nat /\ Return(how, a.content, reason)
    BY <1>1 DEF ForceEnd, Answer
  <2> QED BY <1>1, <2>1, TopAfterReturn
<1>2. ASSUME NEW stack \in Seq(Frame), BeginTurn(stack)
      PROVE  ReadyFresh'
  BY <1>2 DEF BeginTurn, ResetAnswer, NoAnswer
<1>3. ASSUME NEW k \in 1..MaxSegments, Request(k) PROVE ReadyFresh'
  <2>1. BeginTurn(<<>>) /\ <<>> \in Seq(Frame)
    BY <1>3 DEF Request
  <2> QED BY <1>2, <2>1
<1>4. CASE Exit
  BY <1>4 DEF Exit
<1>5. CASE CheckAndDrain
  <2>1. Busy /\ UNCHANGED ans
    BY <1>5 DEF CheckAndDrain, Busy, answerVars
  <2>2. CASE ForceEnd("interrupted", ans, FALSE)
    BY <1>1, <2>1, <2>2 DEF Endings, TypeOK
  <2>3. CASE UNCHANGED frames
    BY <1>5, <2>1, <2>3 DEF CheckAndDrain, Top
  <2> QED BY <1>5, <2>2, <2>3 DEF CheckAndDrain
<1>6. CASE Dispatch
  BY <1>6 DEF Dispatch, turnVars, answerVars, Top
<1>7. CASE StartIteration
  <2>1. Busy /\ UNCHANGED ans /\ pc = "dispatch"
    BY <1>7 DEF StartIteration, Busy, answerVars
  <2>2. CASE ForceEnd("interrupted", ans, FALSE)
             \/ ForceEnd("max_turns", ans, ans.content = Nothing)
    BY <1>1, <2>1, <2>2 DEF Endings, TypeOK
  <2>3. CASE pc' = "call"
    <3>1. Top \in Frame
      BY <2>1, TopType
    <3>2. Top'.resumed = Top.resumed
      BY <1>7, <2>3, <3>1, TopAfterStart DEF Frame
    <3> QED BY <2>1, <3>2
  <2> QED BY <1>7, <2>2, <2>3 DEF StartIteration
<1>8. ASSUME NEW kind \in {"run", "prose"}, Replies(kind) PROVE ReadyFresh'
  BY <1>8 DEF Replies, answerVars, Top
<1>9. CASE CallFails
  <2>1. Busy /\ UNCHANGED ans /\ IterationFails(ans, cleanupPending) /\ pc = "call"
    BY <1>9 DEF CallFails, Busy, answerVars
  <2>2. Top \in Frame
    BY <2>1, TopType
  <2>3. FailedOnce(Top).resumed = Top.resumed
    BY <2>2, TopAfterCount DEF FailedOnce, Outcomes
  <2>4. pc' \in {"idle", "check"} /\ (pc' = "check" => Top'.resumed \/ Top' = FailedOnce(Top))
    BY <2>1, TopAfterFailure DEF TypeOK
  <2> QED BY <2>1, <2>3, <2>4
<1>10. ASSUME NEW outcome \in Outcomes, RunCode(outcome) PROVE ReadyFresh'
  <2>1. Busy
    BY <1>10 DEF RunCode, Busy
  <2>2. PICK b \in Answer : b = ans'
    BY <1>10, AnswerTypes DEF RunCode
  <2> DEFINE f == AfterRun(Top, outcome)
  <2>3. CASE f.errors >= MaxErrors
    <3>1. ForceEnd("errors", b, FALSE)
      BY <1>10, <2>2, <2>3 DEF RunCode
    <3> QED BY <1>1, <2>1, <3>1 DEF Endings
  <2>4. CASE ~(f.errors >= MaxErrors)
    BY <1>10, <2>4 DEF RunCode
  <2> QED BY <2>3, <2>4
<1>11. CASE NoCode
  <2>1. Busy
    BY <1>11 DEF NoCode, Busy
  <2>2. CASE ForceEnd("no_code", ans, FALSE)
    BY <1>1, <2>1, <2>2 DEF Endings, TypeOK
  <2> QED BY <1>11, <2>2 DEF NoCode
<1>12. ASSUME NEW multi \in BOOLEAN, NEW stagnant \in BOOLEAN, Feedback(multi, stagnant)
       PROVE  ReadyFresh'
  <2> DEFINE a == AfterEOT(ans, multi)
             n == AfterEOT(ns, multi)
             total == IF stagnant THEN warnings + 1 ELSE warnings
  <2>1. Busy /\ a \in Answer
    BY <1>12, AnswerTypes DEF Feedback, Busy, TypeOK
  <2>2. CASE ans' = a /\ a.text /\ ForceEnd("loop", a, FALSE)
    BY <1>1, <2>1, <2>2 DEF Endings
  <2>3. CASE ans' = a /\ ~a.text /\ IterationFails(a, TRUE)
    <3> HIDE DEF a
    <3> QED BY <2>1, <2>3, TopAfterFailure
  <2>4. CASE NextSegment(a, n, total)
    <3>1. CASE BeginTurn(frames)
      BY <1>2, <3>1 DEF TypeOK
    <3>2. CASE frames' = SetTop(Resume(Top))
      <4>1. Top \in Frame
        BY <2>1, TopType
      <4>2. Resume(Top) \in Frame /\ Resume(Top).resumed
        BY <4>1, FrameUpdates DEF Resume, Frame
      <4> QED BY <2>1, <3>2, <4>2, TopAfterSet
    <3> QED BY <2>4, <3>1, <3>2 DEF NextSegment
  <2>5. CASE Return("answer", a.content, FALSE)
    <3>1. a.content \in Nat
      BY <2>1 DEF Answer
    <3> HIDE DEF a
    <3> QED BY <2>1, <2>5, <3>1, TopAfterReturn DEF Endings
  <2>6. CASE ans' = a /\ ~Gate(multi)
    BY <2>6 DEF Gate
  <2> QED BY <1>12, <2>2, <2>3, <2>4, <2>5, <2>6 DEF Feedback
<1>13. CASE (\E c \in Commands : SteerRead(c)) \/ SteerSend
  BY <1>13 DEF SteerRead, SteerSend, turnVars, answerVars, Top
<1>14. CASE Interrupt
  BY <1>14 DEF Interrupt, answerVars, Top
<1>15. CASE UNCHANGED vars
  BY <1>15 DEF vars, turnVars, answerVars, Top
<1> QED BY <1>3, <1>4, <1>5, <1>6, <1>7, <1>8, <1>9, <1>10, <1>11, <1>12, <1>13,
           <1>14, <1>15 DEF Next, LoopStep

\* A ready answer is acted upon in the iteration that set it, whatever fails
\* in between; the two exceptions are the ones ReadyFresh names.
THEOREM ReadyStaysFresh == Spec => []ReadyFresh
<1>1. Init => ReadyFresh
  BY DEF Init, ReadyFresh
<1> QED BY <1>1, ReadyInductive, TypeCorrect, PTL DEF Spec

-----------------------------------------------------------------------------
(* The answer in force belongs to the turn                                 *)

\* The turn started with a task no later than the present one, so what its
\* code writes is not older than the turn.
AnswerOwn == NoStaleAnswer /\ (Busy => frames[1].base <= task)

LEMMA AnswerOwnInductive ==
  ASSUME AnswerOwn, TypeOK, TypeOK', [Next]_vars
  PROVE  AnswerOwn'
<1> USE DEF AnswerOwn, NoStaleAnswer
<1> DEFINE Kept == /\ Busy
                   /\ pc' \in {"idle", "exited"} \/ frames'[1].base = frames[1].base
                   /\ task' >= task
                   /\ \A a \in {ans', ns'} :
                        \/ a.content = Nothing
                        \/ a.content \in {ans.content, ns.content, task}
<1>1. ASSUME Kept PROVE AnswerOwn'
  <2>1. /\ task \in Nat /\ task' \in Nat /\ frames \in Seq(Frame) /\ frames # <<>>
        /\ ans \in Answer /\ ns \in Answer /\ ans' \in Answer /\ ns' \in Answer
    BY <1>1 DEF TypeOK
  <2>2. frames[1].base \in Nat
    <3>1. frames[1] \in Frame
      BY <2>1
    <3> QED BY <3>1 DEF Frame
  <2>3. /\ ans.content \in Nat /\ ns.content \in Nat
        /\ ans'.content \in Nat /\ ns'.content \in Nat
    BY <2>1 DEF Answer
  <2>4. /\ frames[1].base <= task
        /\ ans.content # Nothing => ans.content >= frames[1].base
        /\ ns.content # Nothing => ns.content >= frames[1].base
    BY <1>1
  <2>5. /\ ans'.content # Nothing => ans'.content >= frames[1].base
        /\ ns'.content # Nothing => ns'.content >= frames[1].base
    BY <1>1, <2>2, <2>3, <2>4, <2>1
  <2> QED BY <1>1, <2>1, <2>2, <2>4, <2>5 DEF Busy
<1>2. ASSUME NEW how \in Endings, NEW a \in Answer, NEW reason \in BOOLEAN, Busy,
             ForceEnd(how, a, reason)
      PROVE  pc' \in {"idle", "exited"} \/ frames'[1].base = frames[1].base
  <2>1. a.content \in Nat /\ Return(how, a.content, reason)
    BY <1>2 DEF ForceEnd, Answer
  <2> QED BY <1>2, <2>1, TopAfterReturn
<1>3. ASSUME NEW how \in Endings, NEW reason \in BOOLEAN, Busy,
              ForceEnd(how, ans, reason), UNCHANGED <<ans, ns, task>>
       PROVE  AnswerOwn'
  <2>1. pc' \in {"idle", "exited"} \/ frames'[1].base = frames[1].base
    BY <1>2, <1>3 DEF TypeOK
  <2> QED BY <1>1, <1>3, <2>1 DEF TypeOK
<1>4. ASSUME NEW a \in Answer, NEW multi \in BOOLEAN
      PROVE  AfterEOT(a, multi).content = a.content
  BY <1>4 DEF AfterEOT, Answer
<1>5. ASSUME NEW k \in 1..MaxSegments, Request(k) PROVE AnswerOwn'
  <2>1. /\ task' \in Nat /\ ans' = NoAnswer /\ ns' = NoAnswer
        /\ frames' = Append(<<>>, NewFrame(task'))
    BY <1>5 DEF Request, BeginTurn, ResetAnswer, TypeOK
  <2>2. frames'[1].base = task'
    BY <2>1 DEF NewFrame
  <2> QED BY <2>1, <2>2 DEF NoAnswer
<1>6. CASE Exit
  BY <1>6 DEF Exit, Busy
<1>7. CASE CheckAndDrain
  <2>1. Busy /\ UNCHANGED <<ans, ns, task>>
    BY <1>7 DEF CheckAndDrain, Busy, answerVars
  <2>2. CASE ForceEnd("interrupted", ans, FALSE)
    BY <1>3, <2>1, <2>2 DEF Endings
  <2>3. CASE UNCHANGED frames
    BY <1>1, <2>1, <2>3 DEF TypeOK
  <2> QED BY <1>7, <2>2, <2>3 DEF CheckAndDrain
<1>8. CASE Dispatch
  BY <1>1, <1>8 DEF Dispatch, turnVars, answerVars, Busy, TypeOK
<1>9. CASE StartIteration
  <2>1. Busy /\ UNCHANGED <<ans, ns, task>>
    BY <1>9 DEF StartIteration, Busy, answerVars
  <2>2. CASE ForceEnd("interrupted", ans, FALSE)
             \/ ForceEnd("max_turns", ans, ans.content = Nothing)
    BY <1>3, <2>1, <2>2 DEF Endings
  <2>3. CASE pc' = "call"
    BY <1>1, <1>9, <2>1, <2>3, TopAfterStart DEF TypeOK
  <2> QED BY <1>9, <2>2, <2>3 DEF StartIteration
<1>10. ASSUME NEW kind \in {"run", "prose"}, Replies(kind) PROVE AnswerOwn'
  BY <1>1, <1>10 DEF Replies, answerVars, Busy, TypeOK
<1>11. CASE CallFails
  <2>1. Busy /\ UNCHANGED <<ans, ns, task>> /\ IterationFails(ans, cleanupPending)
    BY <1>11 DEF CallFails, Busy, answerVars
  <2>2. pc' \in {"idle", "exited"} \/ frames'[1].base = frames[1].base
    BY <2>1, TopAfterFailure DEF TypeOK
  <2> QED BY <1>1, <2>1, <2>2 DEF TypeOK
<1>12. ASSUME NEW outcome \in Outcomes, RunCode(outcome) PROVE AnswerOwn'
  <2>1. Busy /\ UNCHANGED task
    BY <1>12 DEF RunCode, Busy
  <2>2. PICK n \in AnswerAfterCode : ns' = n /\ ans' = Sync(outcome, n)
    BY <1>12 DEF RunCode
  <2>3. n.content \in {Nothing, ns.content, task}
    BY DEF AnswerAfterCode
  <2>4. ans'.content \in {Nothing, ans.content, ns.content, task}
    BY <2>2, <2>3 DEF Sync
  <2>5. pc' \in {"idle", "exited"} \/ frames'[1].base = frames[1].base
    <3> DEFINE f == AfterRun(Top, outcome)
    <3>1. CASE f.errors >= MaxErrors
      <4>1. PICK b \in Answer : b = ans'
        BY DEF TypeOK
      <4>2. ForceEnd("errors", b, FALSE)
        BY <1>12, <3>1, <4>1 DEF RunCode
      <4> QED BY <1>2, <2>1, <4>2 DEF Endings
    <3>2. CASE ~(f.errors >= MaxErrors)
      <4>1. f \in Frame /\ f.base = Top.base
        BY <2>1, TopType, FrameUpdates, TopAfterCount
      <4>2. frames' = SetTop(f)
        BY <1>12, <3>2 DEF RunCode
      <4> HIDE DEF f
      <4> QED BY <2>1, <4>1, <4>2, TopAfterSet
    <3> QED BY <3>1, <3>2
  <2> QED BY <1>1, <2>1, <2>2, <2>3, <2>4, <2>5 DEF TypeOK
<1>13. CASE NoCode
  <2>1. Busy /\ UNCHANGED <<ans, ns, task>>
    BY <1>13 DEF NoCode, Busy, answerVars
  <2>2. CASE ForceEnd("no_code", ans, FALSE)
    BY <1>3, <2>1, <2>2 DEF Endings
  <2>3. CASE frames' = SetTop([Top EXCEPT !.prose = @ + 1])
    <3> DEFINE f == [Top EXCEPT !.prose = Top.prose + 1]
    <3>1. Top \in Frame /\ Top.prose + 1 \in Nat
      BY <2>1, TopType DEF Frame
    <3>2. f \in Frame /\ f.base = Top.base /\ frames' = SetTop(f)
      BY <2>3, <3>1 DEF Frame
    <3>3. frames'[1].base = frames[1].base
      <4> HIDE DEF f
      <4> QED BY <2>1, <3>2, TopAfterSet
    <3> QED BY <1>1, <2>1, <3>3 DEF TypeOK
  <2> QED BY <1>13, <2>2, <2>3 DEF NoCode
<1>14. ASSUME NEW multi \in BOOLEAN, NEW stagnant \in BOOLEAN, Feedback(multi, stagnant)
       PROVE  AnswerOwn'
  <2> DEFINE a == AfterEOT(ans, multi)
             n == AfterEOT(ns, multi)
             total == IF stagnant THEN warnings + 1 ELSE warnings
  <2>1. Busy /\ a \in Answer /\ task \in Nat
    BY <1>14, AnswerTypes DEF Feedback, Busy, TypeOK
  <2>2. a.content = ans.content /\ n.content = ns.content /\ a.content \in Nat
    BY <1>4, <2>1 DEF TypeOK, Answer
  <2>3. ASSUME ans' = a, ns' = n, UNCHANGED task,
               pc' \in {"idle", "exited"} \/ frames'[1].base = frames[1].base
        PROVE  AnswerOwn'
    BY <1>1, <2>1, <2>2, <2>3
  <2> HIDE DEF a, n
  <2>4. CASE ans' = a /\ ns' = n /\ UNCHANGED task
             /\ (ForceEnd("loop", a, FALSE) \/ IterationFails(a, TRUE))
    BY <1>2, <2>1, <2>3, <2>4, TopAfterFailure DEF Endings
  <2>5. CASE NextSegment(a, n, total)
    <3>1. CASE BeginTurn(frames)
      <4>1. /\ frames' = Append(frames, NewFrame(task')) /\ task' = task + 1
            /\ ans' = NoAnswer /\ ns' = NoAnswer
        BY <3>1 DEF BeginTurn, ResetAnswer
      <4>2. frames'[1] = frames[1]
        BY <2>1, <4>1 DEF TypeOK
      <4> QED BY <1>1, <2>1, <4>1, <4>2 DEF NoAnswer
    <3>2. CASE frames' = SetTop(Resume(Top)) /\ ans' = a /\ ns' = n /\ UNCHANGED task
      <4>1. Resume(Top) \in Frame /\ Resume(Top).base = Top.base
        BY <2>1, TopType, FrameUpdates DEF Resume, Frame
      <4> QED BY <2>1, <2>3, <3>2, <4>1, TopAfterSet
    <3> QED BY <2>5, <3>1, <3>2 DEF NextSegment
  <2>6. CASE ans' = a /\ ns' = n /\ Return("answer", a.content, FALSE) /\ UNCHANGED task
    BY <2>1, <2>2, <2>3, <2>6, TopAfterReturn DEF Endings
  <2>7. CASE ans' = a /\ ns' = n /\ UNCHANGED <<frames, task>>
    BY <2>3, <2>7
  <2> QED BY <1>14, <2>4, <2>5, <2>6, <2>7 DEF Feedback, a, n
<1>15. CASE (\E c \in Commands : SteerRead(c)) \/ SteerSend
  BY <1>15 DEF SteerRead, SteerSend, turnVars, answerVars, Busy
<1>16. CASE Interrupt
  BY <1>16 DEF Interrupt, answerVars, Busy
<1>17. CASE UNCHANGED vars
  BY <1>17 DEF vars, turnVars, answerVars, Busy
<1> QED BY <1>5, <1>6, <1>7, <1>8, <1>9, <1>10, <1>11, <1>12, <1>13, <1>14, <1>15,
           <1>16, <1>17 DEF Next, LoopStep

\* The answer a turn works with was written during that turn, although the
\* kernel and its namespace outlive every turn.
THEOREM AnswerIsOwn == Spec => []NoStaleAnswer
<1>1. Init => AnswerOwn
  BY DEF Init, AnswerOwn, NoStaleAnswer, Busy
<1>2. AnswerOwn => NoStaleAnswer
  BY DEF AnswerOwn
<1> QED BY <1>1, <1>2, AnswerOwnInductive, TypeCorrect, PTL DEF Spec

-----------------------------------------------------------------------------
(* Errors are charged once, to the activation that made them               *)

\* An iteration that has not been charged yet leaves room for its error: the
\* iterations since the last output outnumber the errors by one.
ErrorsKept ==
  /\ ErrorsOwn
  /\ pc \in {"call", "run", "prose"} => ~Top.counted
  /\ pc \in {"call", "run", "prose", "feedback"} /\ ~Top.counted
       => Top.errors < Top.barren

\* What must hold of the activation a step leaves running.
Charged(f) == f.errors <= f.barren /\ f.errors < MaxErrors

LEMMA TopCharged ==
  ASSUME ErrorsOwn, TypeOK, Busy
  PROVE  Top \in Frame /\ Charged(Top)
BY TopType DEF ErrorsOwn, Top, Charged

LEMMA ChargedAfterSet ==
  ASSUME ErrorsOwn, TypeOK, Busy, NEW f \in Frame, Charged(f), frames' = SetTop(f)
  PROVE  ErrorsOwn' /\ Top' = f
<1>1. /\ Len(frames') = Len(frames) /\ frames'[Len(frames)] = f
      /\ \A i \in 1..Len(frames) : i # Len(frames) => frames'[i] = frames[i]
  BY SetTopFacts
<1>2. ErrorsOwn'
  BY <1>1 DEF ErrorsOwn, Charged
<1> QED BY <1>1, <1>2 DEF Top

LEMMA ChargedAfterReturn ==
  ASSUME ErrorsOwn, TypeOK, Busy,
         NEW how \in Endings, NEW a \in Answer, NEW reason \in BOOLEAN,
         Return(how, a.content, reason)
  PROVE  ErrorsOwn' /\ pc' \in {"idle", "check"}
<1>1. a.content \in Nat
  BY DEF Answer
<1>2. /\ Len(frames') = Len(frames) - 1 /\ Len(frames) \in Nat
      /\ pc' \in {"idle", "check"}
      /\ \A i \in 1..Len(frames') : /\ frames'[i].errors = frames[i].errors
                                    /\ frames'[i].barren = frames[i].barren
  BY <1>1, ReturnFacts, TopType
<1> QED BY <1>2 DEF ErrorsOwn

LEMMA ChargedAfterBegin ==
  ASSUME TypeOK, NEW stack \in Seq(Frame), BeginTurn(stack),
         \A i \in 1..Len(stack) : Charged(stack[i])
  PROVE  ErrorsOwn' /\ pc' = "check"
<1>1. task' \in Nat /\ frames' = Append(stack, NewFrame(task')) /\ pc' = "check"
  BY DEF TypeOK, BeginTurn
<1>2. Charged(NewFrame(task'))
  BY LoopAssumption DEF NewFrame, Charged
<1>3. \A i \in 1..Len(frames') : Charged(frames'[i])
  BY <1>1, <1>2, NewFrameType, PushFacts
<1> QED BY <1>1, <1>3 DEF ErrorsOwn, Charged

LEMMA ChargedAfterFailure ==
  ASSUME ErrorsOwn, TypeOK, Busy, ~Top.counted => Top.errors < Top.barren,
         NEW a \in Answer, NEW pending \in BOOLEAN,
         IterationFails(a, pending)
  PROVE  ErrorsOwn' /\ pc' \in {"idle", "check"}
<1> DEFINE f == FailedOnce(Top)
<1>1. Top \in Frame /\ Charged(Top)
  BY TopCharged
<1>2. f \in Frame /\ f.errors <= f.barren
  <2>1. Failed(Top).errors = Top.errors + 1 /\ Failed(Top).barren = Top.barren
    BY <1>1, TopAfterCount DEF Outcomes
  <2> QED BY <1>1, <2>1, FrameUpdates DEF FailedOnce, Charged, Frame
<1>3. CASE f.errors >= MaxErrors
  <2>1. Return("errors", a.content, FALSE)
    BY <1>3 DEF IterationFails, ForceEnd
  <2> QED BY <2>1, ChargedAfterReturn DEF Endings
<1>4. CASE ~(f.errors >= MaxErrors)
  <2>1. frames' = SetTop(f) /\ pc' = "check"
    BY <1>4 DEF IterationFails
  <2>2. Charged(f)
    BY <1>2, <1>4, LoopAssumption DEF Charged, Frame
  <2> HIDE DEF f
  <2> QED BY <1>2, <2>1, <2>2, ChargedAfterSet
<1> QED BY <1>3, <1>4

\* The outcome of the code: a failure is charged, output clears the count.
LEMMA ChargedAfterRun ==
  ASSUME NEW f \in Frame, Charged(f), f.errors < f.barren, NEW outcome \in Outcomes
  PROVE  LET g == AfterRun(f, outcome)
         IN /\ g \in Frame /\ g.errors <= g.barren
            /\ ~g.counted => g.errors < g.barren
<1> DEFINE g == AfterRun(f, outcome)
<1>1. /\ g \in Frame /\ Failed(f) \in Frame
      /\ Failed(f).errors = f.errors + 1 /\ Failed(f).barren = f.barren
      /\ Failed(f).counted
  BY FrameUpdates, TopAfterCount
<1>2. CASE outcome \in Failures
  <2>1. g = [Failed(f) EXCEPT !.prose = 0]
    BY <1>2 DEF AfterRun
  <2>2. g.errors = f.errors + 1 /\ g.barren = f.barren /\ g.counted
    BY <1>1, <2>1 DEF Frame
  <2> QED BY <1>1, <2>2 DEF Frame
<1>3. CASE outcome \notin Failures
  BY <1>1, <1>3 DEF AfterRun, Frame
<1> QED BY <1>2, <1>3

LEMMA ErrorsInductive ==
  ASSUME ErrorsKept, TypeOK, TypeOK', [Next]_vars
  PROVE  ErrorsKept'
<1> USE DEF ErrorsKept
<1>1. ASSUME ErrorsOwn', pc' \in {"idle", "exited", "check", "dispatch"} PROVE ErrorsKept'
  BY <1>1
<1>2. ASSUME NEW how \in Endings, NEW a \in Answer, NEW reason \in BOOLEAN, Busy,
             ForceEnd(how, a, reason)
      PROVE  ErrorsKept'
  BY <1>1, <1>2, ChargedAfterReturn DEF ForceEnd
<1>3. ASSUME UNCHANGED frames, pc' \in {"idle", "exited", "check", "dispatch"},
             Busy' => Busy
      PROVE  ErrorsKept'
  BY <1>1, <1>3 DEF ErrorsOwn
<1>4. ASSUME UNCHANGED <<frames, pc>> PROVE ErrorsKept'
  BY <1>4 DEF ErrorsOwn, Busy, Top
<1>5. ASSUME NEW k \in 1..MaxSegments, Request(k) PROVE ErrorsKept'
  <2>1. BeginTurn(<<>>) /\ <<>> \in Seq(Frame)
    BY <1>5 DEF Request
  <2>2. \A i \in 1..Len(<<>>) : Charged(<<>>[i])
    OBVIOUS
  <2> QED BY <1>1, <2>1, <2>2, ChargedAfterBegin
<1>6. CASE Exit
  BY <1>3, <1>6 DEF Exit, Busy
<1>7. CASE CheckAndDrain
  <2>1. Busy /\ ans \in Answer
    BY <1>7 DEF CheckAndDrain, Busy, TypeOK
  <2>2. CASE ForceEnd("interrupted", ans, FALSE)
    BY <1>2, <2>1, <2>2 DEF Endings
  <2> QED BY <1>3, <1>7, <2>1, <2>2 DEF CheckAndDrain
<1>8. CASE Dispatch
  BY <1>4, <1>8 DEF Dispatch, turnVars
<1>9. CASE StartIteration
  <2>1. Busy /\ ans \in Answer
    BY <1>9 DEF StartIteration, Busy, TypeOK
  <2>2. CASE ForceEnd("interrupted", ans, FALSE)
             \/ ForceEnd("max_turns", ans, ans.content = Nothing)
    BY <1>2, <2>1, <2>2 DEF Endings
  <2>3. CASE pc' = "call"
    <3>1. Top \in Frame /\ Charged(Top)
      BY <2>1, TopCharged
    <3>2. Top' \in Frame /\ frames' = SetTop(Top')
      BY <1>9, <2>3, TopAfterStart
    <3>3. Top'.errors = Top.errors /\ Top'.barren = Top.barren + 1 /\ ~Top'.counted
      BY <1>9, <2>3, <3>1, TopAfterStart DEF Frame
    <3>4. Charged(Top)' /\ Top'.errors < Top'.barren
      <4>1. Top.errors \in Nat /\ Top.barren \in Nat
        BY <3>1 DEF Frame
      <4>2. Top.errors <= Top.barren /\ Top.errors < MaxErrors
        BY <3>1 DEF Charged
      <4> QED BY <3>3, <4>1, <4>2 DEF Charged
    <3>5. PICK f \in Frame : f = Top'
      BY <3>2
    <3>6. ErrorsOwn'
      BY <2>1, <3>2, <3>4, <3>5, ChargedAfterSet DEF Charged
    <3> QED BY <2>3, <3>3, <3>4, <3>6
  <2> QED BY <1>9, <2>2, <2>3 DEF StartIteration
<1>10. ASSUME NEW kind \in {"run", "prose"}, Replies(kind) PROVE ErrorsKept'
  BY <1>10 DEF Replies, ErrorsOwn, Busy, Top
<1>11. CASE CallFails
  <2>1. Busy /\ ans \in Answer /\ cleanupPending \in BOOLEAN
        /\ IterationFails(ans, cleanupPending) /\ pc = "call"
    BY <1>11 DEF CallFails, Busy, TypeOK
  <2> QED BY <1>1, <2>1, ChargedAfterFailure
<1>12. ASSUME NEW outcome \in Outcomes, RunCode(outcome) PROVE ErrorsKept'
  <2> DEFINE f == AfterRun(Top, outcome)
  <2>1. Busy /\ Top \in Frame /\ Charged(Top) /\ Top.errors < Top.barren
    BY <1>12, TopCharged DEF RunCode, Busy
  <2>2. f \in Frame /\ f.errors <= f.barren /\ (~f.counted => f.errors < f.barren)
    BY <2>1, ChargedAfterRun
  <2>3. CASE f.errors >= MaxErrors
    <3>1. PICK b \in Answer : b = ans'
      BY DEF TypeOK
    <3>2. ForceEnd("errors", b, FALSE)
      BY <1>12, <2>3, <3>1 DEF RunCode
    <3> QED BY <1>2, <2>1, <3>2 DEF Endings
  <2>4. CASE ~(f.errors >= MaxErrors)
    <3>1. frames' = SetTop(f) /\ pc' = "feedback"
      BY <1>12, <2>4 DEF RunCode
    <3>2. Charged(f)
      BY <2>2, <2>4, LoopAssumption DEF Charged, Frame
    <3>3. ErrorsOwn' /\ Top' = f
      <4> HIDE DEF f
      <4> QED BY <2>1, <2>2, <3>1, <3>2, ChargedAfterSet
    <3> QED BY <2>2, <3>1, <3>3
  <2> QED BY <2>3, <2>4
<1>13. CASE NoCode
  <2>1. Busy /\ ans \in Answer /\ pc = "prose"
    BY <1>13 DEF NoCode, Busy, TypeOK
  <2>2. CASE ForceEnd("no_code", ans, FALSE)
    BY <1>2, <2>1, <2>2 DEF Endings
  <2>3. CASE frames' = SetTop([Top EXCEPT !.prose = @ + 1])
             /\ pc' = "feedback"
    <3> DEFINE f == [Top EXCEPT !.prose = Top.prose + 1]
    <3>1. Top \in Frame /\ Charged(Top) /\ Top.errors < Top.barren
      BY <2>1, TopCharged
    <3>2. Top.prose + 1 \in Nat
      BY <3>1 DEF Frame
    <3>3. f \in Frame /\ frames' = SetTop(f) /\ f.errors = Top.errors /\ f.barren = Top.barren
      BY <2>3, <3>1, <3>2 DEF Frame
    <3>4. ErrorsOwn' /\ Top' = f
      <4> HIDE DEF f
      <4> QED BY <2>1, <3>1, <3>3, ChargedAfterSet DEF Charged
    <3> QED BY <2>3, <3>1, <3>3, <3>4
  <2> QED BY <1>13, <2>2, <2>3 DEF NoCode
<1>14. ASSUME NEW multi \in BOOLEAN, NEW stagnant \in BOOLEAN, Feedback(multi, stagnant)
       PROVE  ErrorsKept'
  <2> DEFINE a == AfterEOT(ans, multi)
             n == AfterEOT(ns, multi)
             total == IF stagnant THEN warnings + 1 ELSE warnings
  <2>1. Busy /\ pc = "feedback" /\ a \in Answer
    BY <1>14, AnswerTypes DEF Feedback, Busy, TypeOK
  <2> HIDE DEF a, n
  <2>2. CASE ForceEnd("loop", a, FALSE)
    BY <1>2, <2>1, <2>2 DEF Endings
  <2>3. CASE IterationFails(a, TRUE)
    BY <1>1, <2>1, <2>3, ChargedAfterFailure
  <2>4. CASE NextSegment(a, n, total)
    <3>1. CASE BeginTurn(frames)
      <4>1. frames \in Seq(Frame) /\ \A i \in 1..Len(frames) : Charged(frames[i])
        BY <2>1 DEF TypeOK, ErrorsOwn, Charged
      <4> QED BY <1>1, <3>1, <4>1, ChargedAfterBegin
    <3>2. CASE frames' = SetTop(Resume(Top)) /\ pc' = "check"
      <4>1. Top \in Frame /\ Charged(Top)
        BY <2>1, TopCharged
      <4>2. /\ Resume(Top) \in Frame
            /\ Resume(Top).errors = Top.errors /\ Resume(Top).barren = Top.barren
        BY <4>1, FrameUpdates DEF Resume, Frame
      <4>3. PICK f \in Frame : f = Resume(Top)
        BY <4>2
      <4> QED BY <1>1, <2>1, <3>2, <4>1, <4>2, <4>3, ChargedAfterSet DEF Charged
    <3> QED BY <2>4, <3>1, <3>2 DEF NextSegment
  <2>5. CASE Return("answer", a.content, FALSE)
    BY <1>1, <2>1, <2>5, ChargedAfterReturn DEF Endings
  <2>6. CASE UNCHANGED frames /\ pc' = "check"
    BY <1>3, <2>1, <2>6
  <2> QED BY <1>14, <2>2, <2>3, <2>4, <2>5, <2>6 DEF Feedback, a, n
<1>15. CASE (\E c \in Commands : SteerRead(c)) \/ SteerSend
  BY <1>4, <1>15 DEF SteerRead, SteerSend, turnVars
<1>16. CASE Interrupt
  BY <1>3, <1>4, <1>16 DEF Interrupt, Busy
<1>17. CASE UNCHANGED vars
  BY <1>4, <1>17 DEF vars, turnVars
<1> QED BY <1>5, <1>6, <1>7, <1>8, <1>9, <1>10, <1>11, <1>12, <1>13, <1>14, <1>15,
           <1>16, <1>17 DEF Next, LoopStep

\* An iteration is charged at most one error, to its own activation, and the
\* limit is acted upon as soon as it is reached, on every path that counts.
THEOREM ErrorsAreOwn == Spec => []ErrorsOwn
<1>1. Init => ErrorsKept
  BY DEF Init, ErrorsKept, ErrorsOwn, Busy
<1>2. ErrorsKept => ErrorsOwn
  BY DEF ErrorsKept
<1> QED BY <1>1, <1>2, ErrorsInductive, TypeCorrect, PTL DEF Spec

-----------------------------------------------------------------------------
(* Plain prompts: the LLM is called on a context that ends with a request  *)

\* With one segment per command no turn nests, and whatever an iteration did,
\* the next one starts on a user message.
UserLast ==
  /\ segs = <<>> /\ Len(frames) <= 1
  /\ pc \in {"check", "dispatch", "call"} => tail = "user"

LEMMA UserLastAfterReturn ==
  ASSUME UserLast, TypeOK, Busy,
         NEW how \in Endings, NEW a \in Answer, NEW reason \in BOOLEAN,
         Return(how, a.content, reason), segs' = segs
  PROVE  UserLast'
<1>1. a.content \in Nat
  BY DEF Answer
<1>2. /\ Len(frames') = Len(frames) - 1 /\ Len(frames) \in Nat /\ Len(frames) >= 1
      /\ frames' \in Seq(Frame) /\ pc' \in {"idle", "check"}
      /\ pc' = "idle" <=> frames' = <<>>
  BY <1>1, ReturnFacts, TopType
<1>3. frames' = <<>>
  BY <1>2 DEF UserLast
<1> QED BY <1>2, <1>3 DEF UserLast

LEMMA UserLastAfterSet ==
  ASSUME UserLast, TypeOK, Busy, NEW f \in Frame, frames' = SetTop(f), segs' = segs,
         pc' \in {"check", "dispatch", "call"} => tail' = "user"
  PROVE  UserLast'
BY SetTopFacts DEF UserLast

LEMMA UserLastAfterFailure ==
  ASSUME UserLast, TypeOK, Busy, NEW a \in Answer, NEW pending \in BOOLEAN,
         IterationFails(a, pending), segs' = segs
  PROVE  UserLast'
<1> DEFINE f == FailedOnce(Top)
<1>1. f \in Frame
  BY TopType, FrameUpdates
<1>2. CASE f.errors >= MaxErrors
  <2>1. Return("errors", a.content, FALSE)
    BY <1>2 DEF IterationFails, ForceEnd
  <2> QED BY <2>1, UserLastAfterReturn DEF Endings
<1>3. CASE ~(f.errors >= MaxErrors)
  <2>1. frames' = SetTop(f) /\ tail' = "user"
    BY <1>3 DEF IterationFails
  <2> HIDE DEF f
  <2> QED BY <1>1, <2>1, UserLastAfterSet
<1> QED BY <1>2, <1>3

LEMMA UserLastInductive ==
  ASSUME MaxSegments = 1, UserLast, TypeOK, TypeOK', [Next]_vars
  PROVE  UserLast'
<1>1. ASSUME NEW how \in Endings, NEW a \in Answer, NEW reason \in BOOLEAN, Busy,
             ForceEnd(how, a, reason), segs' = segs
      PROVE  UserLast'
  BY <1>1, UserLastAfterReturn DEF ForceEnd
<1>2. ASSUME NEW k \in 1..MaxSegments, Request(k) PROVE UserLast'
  <2>1. k = 1
    BY <1>2
  <2>2. segs' = segs /\ tail' = "user" /\ frames' = Append(<<>>, NewFrame(task'))
    BY <1>2, <2>1 DEF Request, BeginTurn
  <2> QED BY <2>2 DEF UserLast
<1>3. CASE Exit
  BY <1>3 DEF Exit, UserLast
<1>4. CASE CheckAndDrain
  <2>1. Busy /\ ans \in Answer
    BY <1>4 DEF CheckAndDrain, Busy, TypeOK
  <2>2. CASE ForceEnd("interrupted", ans, FALSE)
    BY <1>1, <1>4, <2>1, <2>2 DEF Endings, CheckAndDrain
  <2> QED BY <1>4, <2>2 DEF CheckAndDrain, UserLast
<1>5. CASE Dispatch
  BY <1>5 DEF Dispatch, turnVars, UserLast
<1>6. CASE StartIteration
  <2>1. Busy /\ ans \in Answer /\ segs' = segs
    BY <1>6 DEF StartIteration, Busy, TypeOK
  <2>2. CASE ForceEnd("interrupted", ans, FALSE)
             \/ ForceEnd("max_turns", ans, ans.content = Nothing)
    BY <1>1, <2>1, <2>2 DEF Endings
  <2>3. CASE pc' = "call" /\ UNCHANGED tail
    <3>1. PICK f \in Frame : frames' = SetTop(f)
      BY <1>6, <2>3, TopAfterStart
    <3> QED BY <1>6, <2>1, <2>3, <3>1, UserLastAfterSet DEF UserLast, StartIteration
  <2> QED BY <1>6, <2>2, <2>3 DEF StartIteration
<1>7. ASSUME NEW kind \in {"run", "prose"}, Replies(kind) PROVE UserLast'
  BY <1>7 DEF Replies, UserLast
<1>8. CASE CallFails
  <2>1. Busy /\ ans \in Answer /\ cleanupPending \in BOOLEAN /\ segs' = segs
        /\ IterationFails(ans, cleanupPending)
    BY <1>8 DEF CallFails, Busy, TypeOK
  <2> QED BY <2>1, UserLastAfterFailure
<1>9. ASSUME NEW outcome \in Outcomes, RunCode(outcome) PROVE UserLast'
  <2> DEFINE f == AfterRun(Top, outcome)
  <2>1. Busy /\ segs' = segs
    BY <1>9 DEF RunCode, Busy
  <2>2. f \in Frame
    BY <2>1, TopType, FrameUpdates
  <2>3. CASE f.errors >= MaxErrors
    <3>1. PICK b \in Answer : b = ans'
      BY DEF TypeOK
    <3>2. ForceEnd("errors", b, FALSE)
      BY <1>9, <2>3, <3>1 DEF RunCode
    <3> QED BY <1>1, <2>1, <3>2 DEF Endings
  <2>4. CASE ~(f.errors >= MaxErrors)
    <3>1. frames' = SetTop(f) /\ pc' = "feedback"
      BY <1>9, <2>4 DEF RunCode
    <3> HIDE DEF f
    <3> QED BY <2>1, <2>2, <3>1, UserLastAfterSet
  <2> QED BY <2>3, <2>4
<1>10. CASE NoCode
  <2>1. Busy /\ ans \in Answer /\ segs' = segs
    BY <1>10 DEF NoCode, Busy, TypeOK
  <2>2. CASE ForceEnd("no_code", ans, FALSE)
    BY <1>1, <2>1, <2>2 DEF Endings
  <2>3. CASE pc' = "feedback" /\ frames' = SetTop([Top EXCEPT !.prose = @ + 1])
    <3>1. Len(frames') = Len(frames)
      BY <2>1, <2>3 DEF SetTop, TypeOK
    <3> QED BY <2>1, <2>3, <3>1 DEF UserLast
  <2> QED BY <1>10, <2>2, <2>3 DEF NoCode
<1>11. ASSUME NEW multi \in BOOLEAN, NEW stagnant \in BOOLEAN, Feedback(multi, stagnant)
       PROVE  UserLast'
  <2> DEFINE a == AfterEOT(ans, multi)
  <2>1. Busy /\ a \in Answer /\ segs = <<>>
    BY <1>11, AnswerTypes DEF Feedback, Busy, TypeOK, UserLast
  <2> HIDE DEF a
  <2>2. CASE segs' = segs /\ (ForceEnd("loop", a, FALSE) \/ IterationFails(a, TRUE))
    BY <1>1, <2>1, <2>2, UserLastAfterFailure DEF Endings
  <2>3. CASE segs' = segs /\ Return("answer", a.content, FALSE)
    BY <2>1, <2>3, UserLastAfterReturn DEF Endings
  <2>4. CASE FeedbackMessage /\ pc' = "check" /\ UNCHANGED <<frames, segs>>
    BY <2>4 DEF FeedbackMessage, UserLast
  <2> QED BY <1>11, <2>1, <2>2, <2>3, <2>4 DEF Feedback, a
<1>12. CASE (\E c \in Commands : SteerRead(c)) \/ SteerSend
  BY <1>12 DEF SteerRead, SteerSend, turnVars, UserLast
<1>13. CASE Interrupt
  BY <1>13 DEF Interrupt, UserLast
<1>14. CASE UNCHANGED vars
  BY <1>14 DEF vars, turnVars, UserLast
<1> QED BY <1>2, <1>3, <1>4, <1>5, <1>6, <1>7, <1>8, <1>9, <1>10, <1>11, <1>12,
           <1>13, <1>14 DEF Next, LoopStep

\* As long as no Markdown command has more than one segment, every LLM call
\* is made on a context that ends with a user message.
THEOREM CallsEndWithUser == ASSUME MaxSegments = 1 PROVE Spec => []CallEndsWithUser
<1>1. Init => UserLast
  BY DEF Init, UserLast
<1>2. UserLast => CallEndsWithUser
  BY DEF UserLast, CallEndsWithUser
<1>3. UserLast /\ TypeOK /\ TypeOK' /\ [Next]_vars => UserLast'
  BY UserLastInductive
<1> QED BY <1>1, <1>2, <1>3, TypeCorrect, PTL DEF Spec

-----------------------------------------------------------------------------
(* The exit gate                                                           *)

\* At the prompt no activation is left over.
IdleEmpty == pc = "idle" => frames = <<>>

\* What a step has to do with the stack, for the exit gate: it keeps the
\* height or adds to it, or it returns for a reason that is not an answer,
\* or it is the gate that lets an answer out.
Answers == reply'.how = "answer"
GateOpens ==
  /\ reply'.content # Nothing /\ ans'.ready /\ reply'.content = ans'.content
StackStep == ~Ends \/ ~Answers \/ GateOpens

LEMMA EndNoAnswer ==
  ASSUME NEW how \in Endings \ {"answer"}, NEW a, NEW reason, ForceEnd(how, a, reason)
  PROVE  ~Answers
BY DEF ForceEnd, Return, Answers

LEMMA ReturnLeavesEmpty ==
  ASSUME TypeOK, Busy,
         NEW how \in Endings, NEW a \in Answer, NEW reason \in BOOLEAN,
         Return(how, a.content, reason)
  PROVE  IdleEmpty'
<1>1. a.content \in Nat
  BY DEF Answer
<1> QED BY <1>1, ReturnFacts DEF IdleEmpty

LEMMA SetTopStep ==
  ASSUME TypeOK, Busy, NEW f, frames' = SetTop(f)
  PROVE  ~Ends
<1>1. Len(frames') = Len(frames) /\ Len(frames) \in Nat
  BY DEF SetTop, TypeOK
<1> QED BY <1>1 DEF Ends

LEMMA FailureStep ==
  ASSUME TypeOK, Busy, NEW a \in Answer, NEW pending \in BOOLEAN,
         IterationFails(a, pending)
  PROVE  StackStep /\ IdleEmpty'
<1> DEFINE f == FailedOnce(Top)
<1>1. CASE f.errors >= MaxErrors
  <2>1. ForceEnd("errors", a, FALSE)
    BY <1>1 DEF IterationFails
  <2> QED BY <2>1, EndNoAnswer, ReturnLeavesEmpty DEF Endings, StackStep, ForceEnd
<1>2. CASE ~(f.errors >= MaxErrors)
  <2>1. frames' = SetTop(f) /\ pc' = "check"
    BY <1>2 DEF IterationFails
  <2> HIDE DEF f
  <2> QED BY <2>1, SetTopStep DEF StackStep, IdleEmpty
<1> QED BY <1>1, <1>2

LEMMA GateStep ==
  ASSUME IdleEmpty, TypeOK, TypeOK', [Next]_vars
  PROVE  StackStep /\ IdleEmpty'
<1>1. ASSUME NEW how \in Endings \ {"answer"}, NEW a \in Answer, NEW reason \in BOOLEAN,
             Busy, ForceEnd(how, a, reason)
      PROVE  StackStep /\ IdleEmpty'
  BY <1>1, EndNoAnswer, ReturnLeavesEmpty DEF StackStep, ForceEnd
<1>2. ASSUME UNCHANGED frames, pc' = "idle" => pc = "idle"
      PROVE  StackStep /\ IdleEmpty'
  <2>1. ~Ends
    BY <1>2 DEF Ends, TypeOK
  <2> QED BY <1>2, <2>1 DEF StackStep, IdleEmpty
<1>3. ASSUME NEW f, Busy, frames' = SetTop(f), pc' # "idle"
      PROVE  StackStep /\ IdleEmpty'
  BY <1>3, SetTopStep DEF StackStep, IdleEmpty
<1>4. ASSUME NEW k \in 1..MaxSegments, Request(k) PROVE StackStep /\ IdleEmpty'
  <2>1. frames = <<>> /\ frames' = Append(<<>>, NewFrame(task')) /\ pc' = "check"
    BY <1>4 DEF Request, BeginTurn, IdleEmpty
  <2> QED BY <2>1 DEF StackStep, IdleEmpty, Ends
<1>5. CASE Exit
  BY <1>2, <1>5 DEF Exit
<1>6. CASE CheckAndDrain
  <2>1. Busy /\ ans \in Answer
    BY <1>6 DEF CheckAndDrain, Busy, TypeOK
  <2>2. CASE ForceEnd("interrupted", ans, FALSE)
    BY <1>1, <2>1, <2>2 DEF Endings
  <2> QED BY <1>2, <1>6, <2>2 DEF CheckAndDrain
<1>7. CASE Dispatch
  BY <1>2, <1>7 DEF Dispatch, turnVars
<1>8. CASE StartIteration
  <2>1. Busy /\ ans \in Answer
    BY <1>8 DEF StartIteration, Busy, TypeOK
  <2>2. CASE ForceEnd("interrupted", ans, FALSE)
             \/ ForceEnd("max_turns", ans, ans.content = Nothing)
    BY <1>1, <2>1, <2>2 DEF Endings
  <2>3. CASE pc' = "call"
    <3>1. frames' = SetTop(Top')
      BY <1>8, <2>3, TopAfterStart
    <3> QED BY <1>3, <2>1, <2>3, <3>1
  <2> QED BY <1>8, <2>2, <2>3 DEF StartIteration
<1>9. ASSUME NEW kind \in {"run", "prose"}, Replies(kind) PROVE StackStep /\ IdleEmpty'
  BY <1>2, <1>9 DEF Replies
<1>10. CASE CallFails
  <2>1. Busy /\ ans \in Answer /\ cleanupPending \in BOOLEAN
        /\ IterationFails(ans, cleanupPending)
    BY <1>10 DEF CallFails, Busy, TypeOK
  <2> QED BY <2>1, FailureStep
<1>11. ASSUME NEW outcome \in Outcomes, RunCode(outcome) PROVE StackStep /\ IdleEmpty'
  <2> DEFINE f == AfterRun(Top, outcome)
  <2>1. Busy
    BY <1>11 DEF RunCode, Busy
  <2>2. CASE f.errors >= MaxErrors
    <3>1. PICK b \in Answer : b = ans'
      BY DEF TypeOK
    <3>2. ForceEnd("errors", b, FALSE)
      BY <1>11, <2>2, <3>1 DEF RunCode
    <3> QED BY <1>1, <2>1, <3>2 DEF Endings
  <2>3. CASE ~(f.errors >= MaxErrors)
    <3>1. frames' = SetTop(f) /\ pc' = "feedback"
      BY <1>11, <2>3 DEF RunCode
    <3> HIDE DEF f
    <3> QED BY <1>3, <2>1, <3>1
  <2> QED BY <2>2, <2>3
<1>12. CASE NoCode
  <2>1. Busy /\ ans \in Answer
    BY <1>12 DEF NoCode, Busy, TypeOK
  <2>2. CASE ForceEnd("no_code", ans, FALSE)
    BY <1>1, <2>1, <2>2 DEF Endings
  <2>3. CASE pc' = "feedback" /\ frames' = SetTop([Top EXCEPT !.prose = @ + 1])
    BY <1>3, <2>1, <2>3
  <2> QED BY <1>12, <2>2, <2>3 DEF NoCode
<1>13. ASSUME NEW multi \in BOOLEAN, NEW stagnant \in BOOLEAN, Feedback(multi, stagnant)
       PROVE  StackStep /\ IdleEmpty'
  <2> DEFINE a == AfterEOT(ans, multi)
             n == AfterEOT(ns, multi)
             total == IF stagnant THEN warnings + 1 ELSE warnings
  <2>1. Busy /\ a \in Answer
    BY <1>13, AnswerTypes DEF Feedback, Busy, TypeOK
  <2>2. CASE ForceEnd("loop", a, FALSE) \/ IterationFails(a, TRUE)
    <3> HIDE DEF a
    <3> QED BY <1>1, <2>1, <2>2, FailureStep DEF Endings
  <2>3. CASE NextSegment(a, n, total)
    <3>1. CASE BeginTurn(frames)
      <4>1. Len(frames') = Len(frames) + 1 /\ Len(frames) \in Nat /\ pc' = "check"
        BY <3>1 DEF BeginTurn, TypeOK
      <4> QED BY <4>1 DEF StackStep, IdleEmpty, Ends
    <3>2. CASE frames' = SetTop(Resume(Top)) /\ pc' = "check"
      BY <1>3, <2>1, <3>2
    <3> QED BY <2>3, <3>1, <3>2 DEF NextSegment
  <2>4. CASE Gate(multi) /\ ans' = a /\ Return("answer", a.content, FALSE)
    <3>1. a = ans /\ a.ready /\ a.content # Nothing
      BY <2>4 DEF Gate, AfterEOT, Rejects, TypeOK, Answer
    <3>2. GateOpens
      BY <2>4, <3>1 DEF GateOpens, Return
    <3> HIDE DEF a
    <3> QED BY <2>1, <2>4, <3>2, ReturnLeavesEmpty DEF StackStep, Endings
  <2>5. CASE UNCHANGED frames /\ pc' = "check"
    BY <1>2, <2>5
  <2> QED BY <1>13, <2>2, <2>3, <2>4, <2>5 DEF Feedback
<1>14. CASE (\E c \in Commands : SteerRead(c)) \/ SteerSend
  BY <1>2, <1>14 DEF SteerRead, SteerSend, turnVars
<1>15. CASE Interrupt
  BY <1>2, <1>15 DEF Interrupt
<1>16. CASE UNCHANGED vars
  BY <1>2, <1>16 DEF vars, turnVars
<1> QED BY <1>4, <1>5, <1>6, <1>7, <1>8, <1>9, <1>10, <1>11, <1>12, <1>13, <1>14,
           <1>15, <1>16 DEF Next, LoopStep

\* A turn that ends as answered ends with content and with the flag still up
\* after the validation: the gate never acts on a withdrawn answer.
THEOREM GateIsSound == Spec => ExitGateSound
<1>1. Init => IdleEmpty
  BY DEF Init, IdleEmpty
<1>2. StackStep => (Ends /\ reply'.how = "answer"
                     => reply'.content # Nothing /\ ans'.ready
                        /\ reply'.content = ans'.content)
  BY DEF StackStep, Answers, GateOpens
<1>3. IdleEmpty /\ TypeOK /\ TypeOK' /\ [Next]_vars
        => /\ IdleEmpty'
           /\ Ends /\ reply'.how = "answer"
                => reply'.content # Nothing /\ ans'.ready /\ reply'.content = ans'.content
  BY <1>2, GateStep
<1> QED BY <1>1, <1>3, TypeCorrect, PTL DEF Spec, ExitGateSound

-----------------------------------------------------------------------------
(* Prose replies are charged to the activation that gave them              *)

LEMMA StreakInductive ==
  ASSUME NoCodeOwn, TypeOK, TypeOK', [Next]_vars
  PROVE  NoCodeOwn'
<1> USE DEF NoCodeOwn
<1>1. ASSUME Busy, NEW how \in Endings, NEW a \in Answer, NEW reason \in BOOLEAN,
             Return(how, a.content, reason)
      PROVE  NoCodeOwn'
  <2>1. a.content \in Nat
    BY DEF Answer
  <2> QED BY <1>1, <2>1, TopAfterReturn DEF Busy
<1>2. ASSUME NEW stack \in Seq(Frame), BeginTurn(stack)
      PROVE  NoCodeOwn'
  <2>1. task' \in Nat /\ frames' = Append(stack, NewFrame(task')) /\ noCode' = 0
    BY <1>2 DEF TypeOK, BeginTurn, ResetStreaks
  <2>2. Top' = NewFrame(task')
    BY <2>1, NewFrameType, PushFacts DEF Top
  <2> QED BY <2>1, <2>2 DEF NewFrame
<1>3. ASSUME UNCHANGED <<frames, noCode>>, Busy' => Busy
      PROVE  NoCodeOwn'
  BY <1>3 DEF Top
<1>4. ASSUME Busy, NEW a \in Answer, NEW pending \in BOOLEAN,
             IterationFails(a, pending), UNCHANGED noCode
      PROVE  NoCodeOwn'
  <2>1. Top \in Frame
    BY <1>4, TopType
  <2>2. /\ FailedOnce(Top).resumed = Top.resumed
        /\ FailedOnce(Top).prose = Top.prose
    BY <2>1, TopAfterCount DEF FailedOnce, Outcomes
  <2>3. pc' \in {"idle", "check"} /\ (pc' = "check" => Top'.resumed \/ Top' = FailedOnce(Top))
    BY <1>4, TopAfterFailure
  <2> QED BY <1>4, <2>2, <2>3 DEF Busy
<1>5. ASSUME NEW k \in 1..MaxSegments, Request(k) PROVE NoCodeOwn'
  <2>1. BeginTurn(<<>>) /\ <<>> \in Seq(Frame)
    BY <1>5 DEF Request
  <2> QED BY <1>2, <2>1
<1>6. CASE Exit
  BY <1>6 DEF Exit, Busy
<1>7. CASE CheckAndDrain
  <2>1. Busy /\ ans \in Answer /\ UNCHANGED noCode
    BY <1>7 DEF CheckAndDrain, Busy, TypeOK, streakVars
  <2>2. CASE ForceEnd("interrupted", ans, FALSE)
    BY <1>1, <2>1, <2>2 DEF Endings, ForceEnd
  <2> QED BY <1>3, <1>7, <2>1, <2>2 DEF CheckAndDrain
<1>8. CASE Dispatch
  BY <1>3, <1>8 DEF Dispatch, turnVars, Busy
<1>9. CASE StartIteration
  <2>1. Busy /\ ans \in Answer /\ UNCHANGED noCode
    BY <1>9 DEF StartIteration, Busy, TypeOK, streakVars
  <2>2. CASE ForceEnd("interrupted", ans, FALSE)
             \/ ForceEnd("max_turns", ans, ans.content = Nothing)
    BY <1>1, <2>1, <2>2 DEF Endings, ForceEnd
  <2>3. CASE pc' = "call"
    <3>1. Top \in Frame
      BY <2>1, TopType
    <3>2. Top'.resumed = Top.resumed /\ Top'.prose = Top.prose
      BY <1>9, <2>3, <3>1, TopAfterStart DEF Frame
    <3> QED BY <2>1, <3>2
  <2> QED BY <1>9, <2>2, <2>3 DEF StartIteration
<1>10. ASSUME NEW kind \in {"run", "prose"}, Replies(kind) PROVE NoCodeOwn'
  BY <1>3, <1>10 DEF Replies, streakVars, Busy
<1>11. CASE CallFails
  BY <1>4, <1>11 DEF CallFails, streakVars, Busy, TypeOK
<1>12. ASSUME NEW outcome \in Outcomes, RunCode(outcome) PROVE NoCodeOwn'
  <2> DEFINE f == AfterRun(Top, outcome)
  <2>1. Busy /\ noCode' = 0
    BY <1>12 DEF RunCode, Busy
  <2>2. CASE f.errors >= MaxErrors
    <3>1. PICK b \in Answer : b = ans'
      BY DEF TypeOK
    <3>2. Return("errors", b.content, FALSE)
      BY <1>12, <2>2, <3>1 DEF RunCode, ForceEnd
    <3> QED BY <1>1, <2>1, <3>2 DEF Endings
  <2>3. CASE ~(f.errors >= MaxErrors)
    <3>1. frames' = SetTop(f) /\ f \in Frame
      BY <1>12, <2>1, <2>3, TopType, FrameUpdates DEF RunCode
    <3>2. Top' = f
      <4> HIDE DEF f
      <4> QED BY <2>1, <3>1, TopAfterSet
    <3> QED BY <2>1, <3>1, <3>2 DEF Frame
  <2> QED BY <2>2, <2>3
<1>13. CASE NoCode
  <2>1. Busy /\ ans \in Answer /\ noCode' = noCode + 1 /\ noCode \in Nat
    BY <1>13 DEF NoCode, Busy, TypeOK
  <2>2. CASE ForceEnd("no_code", ans, FALSE)
    BY <1>1, <2>1, <2>2 DEF Endings, ForceEnd
  <2>3. CASE frames' = SetTop([Top EXCEPT !.prose = @ + 1])
    <3> DEFINE f == [Top EXCEPT !.prose = Top.prose + 1]
    <3>1. Top \in Frame
      BY <2>1, TopType
    <3>2. Top.prose \in Nat
      BY <3>1 DEF Frame
    <3>3. /\ f \in Frame /\ frames' = SetTop(f)
          /\ f.prose = Top.prose + 1 /\ f.resumed = Top.resumed
      BY <2>3, <3>1, <3>2 DEF Frame
    <3>4. Top' = f
      <4> HIDE DEF f
      <4> QED BY <2>1, <3>3, TopAfterSet
    <3> QED BY <2>1, <3>2, <3>3, <3>4
  <2> QED BY <1>13, <2>2, <2>3 DEF NoCode
<1>14. ASSUME NEW multi \in BOOLEAN, NEW stagnant \in BOOLEAN, Feedback(multi, stagnant)
       PROVE  NoCodeOwn'
  <2> DEFINE a == AfterEOT(ans, multi)
             n == AfterEOT(ns, multi)
             total == IF stagnant THEN warnings + 1 ELSE warnings
  <2>1. Busy /\ a \in Answer
    BY <1>14, AnswerTypes DEF Feedback, Busy, TypeOK
  <2> HIDE DEF a, n
  <2>2. CASE ForceEnd("loop", a, FALSE)
    BY <1>1, <2>1, <2>2 DEF Endings, ForceEnd
  <2>3. CASE IterationFails(a, TRUE) /\ UNCHANGED noCode
    BY <1>4, <2>1, <2>3
  <2>4. CASE NextSegment(a, n, total)
    <3>1. CASE BeginTurn(frames)
      BY <1>2, <3>1 DEF TypeOK
    <3>2. CASE frames' = SetTop(Resume(Top))
      <4>1. Top \in Frame
        BY <2>1, TopType
      <4>2. Resume(Top) \in Frame /\ Resume(Top).resumed
        BY <4>1, FrameUpdates DEF Resume, Frame
      <4> QED BY <2>1, <3>2, <4>2, TopAfterSet
    <3> QED BY <2>4, <3>1, <3>2 DEF NextSegment
  <2>5. CASE Return("answer", a.content, FALSE)
    BY <1>1, <2>1, <2>5 DEF Endings
  <2>6. CASE UNCHANGED <<frames, noCode>>
    BY <1>3, <2>1, <2>6
  <2> QED BY <1>14, <2>2, <2>3, <2>4, <2>5, <2>6 DEF Feedback, a, n
<1>15. CASE (\E c \in Commands : SteerRead(c)) \/ SteerSend
  BY <1>3, <1>15 DEF SteerRead, SteerSend, turnVars, streakVars, Busy
<1>16. CASE Interrupt
  BY <1>3, <1>16 DEF Interrupt, Busy, streakVars
<1>17. CASE UNCHANGED vars
  BY <1>3, <1>17 DEF vars, turnVars, streakVars, Busy
<1> QED BY <1>5, <1>6, <1>7, <1>8, <1>9, <1>10, <1>11, <1>12, <1>13, <1>14, <1>15,
           <1>16, <1>17 DEF Next, LoopStep

\* The streak that ends a turn for replying in prose is the turn's own: the
\* counter on the agent never runs ahead of the prose replies of the running
\* activation, except where a nested segment has run inside it.
THEOREM StreakIsOwn == Spec => []NoCodeOwn
<1>1. Init => NoCodeOwn
  BY DEF Init, NoCodeOwn, Busy
<1> QED BY <1>1, StreakInductive, TypeCorrect, PTL DEF Spec

-----------------------------------------------------------------------------
(* Induction over the positions of a list, by the least counterexample     *)

LEMMA LeastNumber ==
  ASSUME NEW S \in SUBSET Nat, S # {}
  PROVE  \E m \in S : \A k \in S : m <= k
<1> DEFINE Lt == {p \in Nat \X Nat : p[1] < p[2]}
<1>1. IsWellFoundedOn(Lt, Nat)
  BY NatLessThanWellFounded DEF OpToRel
<1>2. \A x, y \in Nat : <<y, x>> \in Lt <=> y < x
  OBVIOUS
<1> HIDE DEF Lt
<1>3. PICK x \in S : \A y \in S : ~ (<<y, x>> \in Lt)
  BY <1>1, WFMin
<1>4. x \in Nat /\ \A y \in S : y \in Nat /\ ~(y < x)
  BY <1>2, <1>3
<1> QED BY <1>3, <1>4

LEMMA EveryNumber ==
  ASSUME NEW S, 0 \in S, \A k \in Nat : k \in S => k + 1 \in S
  PROVE  \A k \in Nat : k \in S
<1> DEFINE Bad == {k \in Nat : k \notin S}
<1> SUFFICES ASSUME Bad # {} PROVE FALSE
  OBVIOUS
<1>1. Bad \in SUBSET Nat /\ \A k \in Nat : k \in Bad <=> k \notin S
  OBVIOUS
<1> HIDE DEF Bad
<1>2. PICK m \in Bad : \A k \in Bad : m <= k
  BY <1>1, LeastNumber
<1>3. m \in Nat /\ m # 0
  BY <1>1
<1>4. m - 1 \in Nat /\ ~(m <= m - 1) /\ (m - 1) + 1 = m
  BY <1>3
<1>5. m - 1 \in S
  BY <1>1, <1>2, <1>4
<1> QED BY <1>1, <1>4, <1>5

-----------------------------------------------------------------------------
(* Lists of messages                                                       *)

LEMMA Roles ==
  /\ \A m \in Kinds : Role(m) \in {"system", "user", "assistant"}
  /\ \A m \in UserKinds : m \in Kinds /\ Role(m) = "user"
  /\ \A m \in AssistantKinds : m \in Kinds /\ Role(m) = "assistant"
  /\ "system" \in Kinds /\ Role("system") = "system"
  /\ \A m \in Kinds : Role(m) = "system" <=> m = "system"
  /\ \A m \in Kinds : Role(m) = "user" <=> m \in UserKinds
  /\ \A m \in Kinds : Role(m) = "assistant" <=> m \in AssistantKinds
BY DEF Role, Kinds, UserKinds, AssistantKinds, SyntheticKinds

\* A list the loop may hold: the system prompt, at the head and nowhere
\* else, and no two user messages side by side.
Listed(c) ==
  /\ c \in Seq(Kinds) /\ Len(c) >= 1
  /\ Role(c[1]) = "system"
  /\ \A i \in 1..Len(c) : i > 1 => Role(c[i]) # "system"
  /\ \A i \in 1..Len(c) - 1 : ~(Role(c[i]) = "user" /\ Role(c[i + 1]) = "user")

\* No two neighbours of one role, but for the system prompt.
Mixed(c) == \A i \in 1..Len(c) - 1 : i > 1 => Role(c[i]) # Role(c[i + 1])

LEMMA ListedLast ==
  ASSUME NEW c, Listed(c)
  PROVE  /\ Len(c) \in Nat /\ LastRole(c) = Role(c[Len(c)])
         /\ c[Len(c)] \in Kinds /\ LastRole(c) \in {"system", "user", "assistant"}
         /\ LastRole(c) = "system" <=> Len(c) = 1
<1>1. Len(c) \in Nat /\ Len(c) >= 1 /\ c[Len(c)] \in Kinds
  BY DEF Listed
<1>2. LastRole(c) = Role(c[Len(c)])
  BY DEF LastRole, Last
<1>3. LastRole(c) = "system" <=> Len(c) = 1
  <2>1. CASE Len(c) = 1
    BY <1>2, <2>1 DEF Listed
  <2>2. CASE Len(c) # 1
    <3>1. Len(c) \in 1..Len(c) /\ Len(c) > 1
      BY <1>1, <2>2
    <3>2. Role(c[Len(c)]) # "system"
      BY <3>1 DEF Listed
    <3> QED BY <1>2, <2>2, <3>2
  <2> QED BY <2>1, <2>2
<1> QED BY <1>1, <1>2, <1>3, Roles

LEMMA ListedAppend ==
  ASSUME NEW c, Listed(c), NEW m \in Kinds, Role(m) # "system",
         ~(LastRole(c) = "user" /\ Role(m) = "user")
  PROVE  Listed(Append(c, m)) /\ LastRole(Append(c, m)) = Role(m)
<1> DEFINE d == Append(c, m)
           n == Len(c)
<1>1. c \in Seq(Kinds) /\ n \in Nat /\ n >= 1 /\ LastRole(c) = Role(c[n])
  BY ListedLast DEF Listed
<1>2. d \in Seq(Kinds) /\ Len(d) = n + 1 /\ d[n + 1] = m /\ \A i \in 1..n : d[i] = c[i]
  BY <1>1
<1> HIDE DEF d
<1>3. Len(d) >= 1 /\ Role(d[1]) = "system"
  BY <1>1, <1>2 DEF Listed
<1>4. ASSUME NEW i \in 1..Len(d), i > 1 PROVE Role(d[i]) # "system"
  <2>1. CASE i = n + 1
    BY <1>2, <2>1
  <2>2. CASE i # n + 1
    <3>1. i \in 1..n /\ i > 1
      BY <1>1, <1>2, <1>4, <2>2
    <3>2. d[i] = c[i] /\ Role(c[i]) # "system"
      BY <1>2, <3>1 DEF Listed
    <3> QED BY <3>2
  <2> QED BY <2>1, <2>2
<1>5. ASSUME NEW i \in 1..Len(d) - 1, Role(d[i]) = "user", Role(d[i + 1]) = "user" PROVE FALSE
  <2>1. CASE i = n
    BY <1>1, <1>2, <1>5, <2>1
  <2>2. CASE i # n
    <3>1. i \in 1..n - 1 /\ i \in 1..n /\ i + 1 \in 1..n
      BY <1>1, <1>2, <2>2
    <3>2. d[i] = c[i] /\ d[i + 1] = c[i + 1]
      BY <1>2, <3>1
    <3> QED BY <1>5, <3>1, <3>2 DEF Listed
  <2> QED BY <2>1, <2>2
<1>6. LastRole(d) = Role(m)
  BY <1>2 DEF LastRole, Last
<1> QED BY <1>2, <1>3, <1>4, <1>5, <1>6 DEF Listed, d

\* append_synthetic_user_with_bridge keeps the list, whatever it ends with.
LEMMA BridgedListed ==
  ASSUME NEW c, Listed(c), NEW m \in UserKinds
  PROVE  Listed(Bridged(c, m)) /\ LastRole(Bridged(c, m)) = "user"
<1>1. m \in Kinds /\ Role(m) = "user" /\ "bridge" \in Kinds /\ Role("bridge") = "assistant"
  BY Roles DEF AssistantKinds
<1>2. CASE LastRole(c) # "user"
  BY <1>1, <1>2, ListedAppend DEF Bridged
<1>3. CASE LastRole(c) = "user"
  <2>1. Listed(Append(c, "bridge")) /\ LastRole(Append(c, "bridge")) = "assistant"
    BY <1>1, ListedAppend
  <2>2. Listed(Append(Append(c, "bridge"), m)) /\ LastRole(Append(Append(c, "bridge"), m)) = "user"
    BY <1>1, <2>1, ListedAppend
  <2>3. c \in Seq(Kinds)
    BY DEF Listed
  <2>4. c \o <<"bridge", m>> = Append(Append(c, "bridge"), m)
    BY <1>1, <2>3
  <2> QED BY <1>3, <2>2, <2>4 DEF Bridged
<1> QED BY <1>2, <1>3

-----------------------------------------------------------------------------
(* cleanup_synthetic                                                       *)

IsKept(f, c, n) ==
  f = [i \in 0..n |-> IF i = 0 THEN <<>>
                      ELSE IF Removed(c, i) THEN f[i - 1] ELSE Append(f[i - 1], c[i])]

LEMMA KeptExists ==
  ASSUME NEW c
  PROVE  \A n \in Nat : \E f : IsKept(f, c, n)
<1> DEFINE S == {n \in Nat : \E f : IsKept(f, c, n)}
<1>1. 0 \in S
  <2>1. IsKept([i \in 0..0 |-> <<>>], c, 0)
    BY DEF IsKept
  <2> QED BY <2>1
<1>2. ASSUME NEW k \in Nat, k \in S PROVE k + 1 \in S
  <2>1. PICK f : IsKept(f, c, k)
    BY <1>2
  <2> DEFINE g == [i \in 0..(k + 1) |->
                     IF i = k + 1 THEN IF Removed(c, k + 1) THEN f[k] ELSE Append(f[k], c[k + 1])
                     ELSE f[i]]
  <2>2. \A i \in 0..k : f[i] = IF i = 0 THEN <<>>
                               ELSE IF Removed(c, i) THEN f[i - 1] ELSE Append(f[i - 1], c[i])
    BY <2>1 DEF IsKept
  <2>3. \A i \in 0..(k + 1) : g[i] = IF i = 0 THEN <<>>
                               ELSE IF Removed(c, i) THEN g[i - 1] ELSE Append(g[i - 1], c[i])
    BY <2>2
  <2>4. g = [i \in 0..(k + 1) |-> g[i]]
    OBVIOUS
  <2>5. IsKept(g, c, k + 1)
    <3> HIDE DEF g
    <3> QED BY <2>3, <2>4 DEF IsKept
  <2> QED BY <2>5
<1> HIDE DEF S
<1>3. \A k \in Nat : k \in S
  BY <1>1, <1>2, EveryNumber
<1> QED BY <1>3 DEF S

LEMMA CleanupWalk ==
  ASSUME NEW c \in Seq(Kinds)
  PROVE  \E f : /\ Cleanup(c) = f[Len(c)]
                /\ \A i \in 0..Len(c) :
                     f[i] = IF i = 0 THEN <<>>
                            ELSE IF Removed(c, i) THEN f[i - 1] ELSE Append(f[i - 1], c[i])
<1>1. \E f : IsKept(f, c, Len(c))
  BY KeptExists
<1>2. IsKept(CHOOSE f : IsKept(f, c, Len(c)), c, Len(c))
  BY <1>1
<1>3. Cleanup(c) = (CHOOSE f : IsKept(f, c, Len(c)))[Len(c)]
  BY DEF Cleanup, IsKept
<1>4. PICK g : IsKept(g, c, Len(c)) /\ Cleanup(c) = g[Len(c)]
  BY <1>2, <1>3
<1> QED BY <1>4 DEF IsKept

\* A user message that stays has its predecessor stay: an assistant message
\* only goes with the error after it, which goes too.
LEMMA UserKeepsPredecessor ==
  ASSUME NEW c, Listed(c), NEW k \in Nat, k >= 1, k + 1 \in 1..Len(c),
         ~Removed(c, k + 1), Role(c[k + 1]) = "user"
  PROVE  ~Removed(c, k) /\ Role(c[k]) # "user"
<1>1. k \in 1..Len(c) /\ k \in 1..Len(c) - 1 /\ c[k] \in Kinds /\ c[k + 1] \in Kinds
  BY DEF Listed
<1>2. Role(c[k]) # "user"
  BY <1>1 DEF Listed
<1>3. c[k] \notin SyntheticKinds
  BY <1>1, <1>2, Roles DEF UserKinds
<1>4. c[k + 1] # "error"
  BY DEF Removed, SyntheticKinds
<1> QED BY <1>2, <1>3, <1>4 DEF Removed

\* The cleanup takes messages out of the middle of the list, and still no two
\* user messages come to stand side by side.
LEMMA CleanupListed ==
  ASSUME NEW c, Listed(c)
  PROVE  Listed(Cleanup(c))
<1>1. c \in Seq(Kinds) /\ Len(c) \in Nat /\ Len(c) >= 1
  BY DEF Listed
<1>2. PICK f : /\ Cleanup(c) = f[Len(c)]
               /\ \A i \in 0..Len(c) :
                    f[i] = IF i = 0 THEN <<>>
                           ELSE IF Removed(c, i) THEN f[i - 1] ELSE Append(f[i - 1], c[i])
  BY <1>1, CleanupWalk
<1> DEFINE S == {k \in Nat : k < Len(c) =>
                   /\ Listed(f[k + 1])
                   /\ ~Removed(c, k + 1) => LastRole(f[k + 1]) = Role(c[k + 1])}
<1>3. 0 \in S
  <2>1. c[1] = "system"
    BY <1>1, Roles DEF Listed
  <2>2. ~Removed(c, 1)
    BY <2>1 DEF Removed, SyntheticKinds, AssistantKinds
  <2>3. f[0] = <<>> /\ f[1] = Append(f[0], c[1])
    <3>1. 0 \in 0..Len(c) /\ 1 \in 0..Len(c) /\ 1 - 1 = 0 /\ 1 # 0
      BY <1>1
    <3>2. f[0] = <<>>
      BY <1>2, <3>1
    <3>3. f[1] = IF Removed(c, 1) THEN f[1 - 1] ELSE Append(f[1 - 1], c[1])
      BY <1>2, <3>1
    <3> QED BY <2>2, <3>1, <3>2, <3>3
  <2>4. f[0 + 1] = <<"system">>
    BY <2>1, <2>3
  <2>5. Listed(<<"system">>) /\ LastRole(<<"system">>) = "system"
    BY Roles DEF Listed, LastRole, Last
  <2> QED BY <2>1, <2>4, <2>5, Roles
<1>4. ASSUME NEW k \in Nat, k \in S PROVE k + 1 \in S
  <2> SUFFICES ASSUME k + 1 < Len(c)
               PROVE  /\ Listed(f[(k + 1) + 1])
                      /\ ~Removed(c, (k + 1) + 1) => LastRole(f[(k + 1) + 1]) = Role(c[(k + 1) + 1])
    OBVIOUS
  <2> DEFINE j == k + 1
  <2>1. /\ j \in Nat /\ j >= 1 /\ j + 1 \in 1..Len(c) /\ j + 1 \in 0..Len(c)
        /\ j + 1 # 0 /\ (j + 1) - 1 = j /\ k < Len(c)
    BY <1>1
  <2>2. Listed(f[j]) /\ (~Removed(c, j) => LastRole(f[j]) = Role(c[j]))
    BY <1>4, <2>1
  <2>3. f[j + 1] = IF Removed(c, j + 1) THEN f[j] ELSE Append(f[j], c[j + 1])
    BY <1>2, <2>1
  <2>4. c[j + 1] \in Kinds /\ Role(c[j + 1]) # "system"
    BY <1>1, <2>1 DEF Listed
  <2> HIDE DEF j
  <2>5. CASE Removed(c, j + 1)
    BY <2>2, <2>3, <2>5 DEF j
  <2>6. CASE ~Removed(c, j + 1)
    <3>1. ~(LastRole(f[j]) = "user" /\ Role(c[j + 1]) = "user")
      BY <2>1, <2>2, <2>6, UserKeepsPredecessor
    <3>2. Listed(Append(f[j], c[j + 1])) /\ LastRole(Append(f[j], c[j + 1])) = Role(c[j + 1])
      BY <2>2, <2>4, <3>1, ListedAppend
    <3> QED BY <2>3, <2>6, <3>2 DEF j
  <2> QED BY <2>5, <2>6
<1> HIDE DEF S
<1>5. \A k \in Nat : k \in S
  BY <1>3, <1>4, EveryNumber
<1>6. Len(c) - 1 \in Nat /\ Len(c) - 1 < Len(c) /\ (Len(c) - 1) + 1 = Len(c)
  BY <1>1
<1> QED BY <1>2, <1>5, <1>6 DEF S

-----------------------------------------------------------------------------
(* merge_consecutive_assistants and close_turn                             *)

IsMerged(f, c, n) == f = [i \in 0..n |-> IF i = 0 THEN <<>> ELSE Joined(f[i - 1], c[i])]

LEMMA MergedExists ==
  ASSUME NEW c
  PROVE  \A n \in Nat : \E f : IsMerged(f, c, n)
<1> DEFINE S == {n \in Nat : \E f : IsMerged(f, c, n)}
<1>1. 0 \in S
  <2>1. IsMerged([i \in 0..0 |-> <<>>], c, 0)
    BY DEF IsMerged
  <2> QED BY <2>1
<1>2. ASSUME NEW k \in Nat, k \in S PROVE k + 1 \in S
  <2>1. PICK f : IsMerged(f, c, k)
    BY <1>2
  <2> DEFINE g == [i \in 0..(k + 1) |-> IF i = k + 1 THEN Joined(f[k], c[k + 1]) ELSE f[i]]
  <2>2. \A i \in 0..k : f[i] = IF i = 0 THEN <<>> ELSE Joined(f[i - 1], c[i])
    BY <2>1 DEF IsMerged
  <2>3. \A i \in 0..(k + 1) : g[i] = IF i = 0 THEN <<>> ELSE Joined(g[i - 1], c[i])
    BY <2>2
  <2>4. g = [i \in 0..(k + 1) |-> g[i]]
    OBVIOUS
  <2>5. IsMerged(g, c, k + 1)
    <3> HIDE DEF g
    <3> QED BY <2>3, <2>4 DEF IsMerged
  <2> QED BY <2>5
<1> HIDE DEF S
<1>3. \A k \in Nat : k \in S
  BY <1>1, <1>2, EveryNumber
<1> QED BY <1>3 DEF S

LEMMA MergeWalk ==
  ASSUME NEW c \in Seq(Kinds)
  PROVE  \E f : /\ Merge(c) = f[Len(c)]
                /\ \A i \in 0..Len(c) : f[i] = IF i = 0 THEN <<>> ELSE Joined(f[i - 1], c[i])
<1>1. \E f : IsMerged(f, c, Len(c))
  BY MergedExists
<1>2. IsMerged(CHOOSE f : IsMerged(f, c, Len(c)), c, Len(c))
  BY <1>1
<1>3. Merge(c) = (CHOOSE f : IsMerged(f, c, Len(c)))[Len(c)]
  BY DEF Merge, IsMerged
<1>4. PICK g : IsMerged(g, c, Len(c)) /\ Merge(c) = g[Len(c)]
  BY <1>2, <1>3
<1> QED BY <1>4 DEF IsMerged

\* One message joined to a list without neighbours of one role.
LEMMA JoinedMixed ==
  ASSUME NEW d, Listed(d), Mixed(d), NEW m \in Kinds, Role(m) # "system"
  PROVE  Listed(Joined(d, m)) /\ Mixed(Joined(d, m)) /\ LastRole(Joined(d, m)) = Role(m)
<1> DEFINE n == Len(d)
<1>1. /\ d \in Seq(Kinds) /\ n \in Nat /\ n >= 1 /\ LastRole(d) = Role(d[n])
      /\ LastRole(d) \in {"system", "user", "assistant"} /\ d # <<>>
  BY ListedLast DEF Listed
<1>2. CASE LastRole(d) = Role(m)
  <2>1. Joined(d, m) = MergeLast(d, m)
    BY <1>1, <1>2 DEF Joined
  <2>2. CASE m # "final"
    BY <1>2, <2>1, <2>2 DEF MergeLast
  <2>3. CASE m = "final"
    <3> DEFINE e == [d EXCEPT ![n] = "final"]
    <3>1. Joined(d, m) = e
      BY <2>1, <2>3 DEF MergeLast
    <3>2. Role("final") = "assistant" /\ "final" \in Kinds /\ Role(d[n]) = "assistant"
      BY <1>1, <1>2, <2>3, Roles DEF AssistantKinds
    <3>3. e \in Seq(Kinds) /\ Len(e) = n /\ e[n] = "final" /\ \A i \in 1..n : i # n => e[i] = d[i]
      BY <1>1, <3>2
    <3> HIDE DEF e
    <3>4. \A i \in 1..n : Role(e[i]) = Role(d[i])
      BY <3>2, <3>3
    <3>5. /\ 1 \in 1..n /\ n \in 1..n
          /\ \A i \in 1..n - 1 : i \in 1..n /\ i + 1 \in 1..n
      BY <1>1
    <3>6. Listed(e)
      <4>1. Role(e[1]) = "system" /\ \A i \in 1..n : i > 1 => Role(e[i]) # "system"
        BY <3>4, <3>5 DEF Listed
      <4>2. \A i \in 1..n - 1 : ~(Role(e[i]) = "user" /\ Role(e[i + 1]) = "user")
        BY <3>4, <3>5 DEF Listed
      <4> QED BY <1>1, <3>3, <4>1, <4>2 DEF Listed
    <3>7. Mixed(e)
      BY <3>3, <3>4, <3>5 DEF Mixed
    <3>8. LastRole(e) = Role(m)
      BY <2>3, <3>3 DEF LastRole, Last
    <3> QED BY <3>1, <3>6, <3>7, <3>8
  <2> QED BY <2>2, <2>3
<1>3. CASE LastRole(d) # Role(m)
  <2> DEFINE e == Append(d, m)
  <2>1. Joined(d, m) = e
    BY <1>3 DEF Joined
  <2>2. Listed(e) /\ LastRole(e) = Role(m)
    BY <1>3, ListedAppend
  <2>3. Len(e) = n + 1 /\ e[n + 1] = m /\ \A i \in 1..n : e[i] = d[i]
    BY <1>1
  <2> HIDE DEF e
  <2>4. ASSUME NEW i \in 1..Len(e) - 1, i > 1 PROVE Role(e[i]) # Role(e[i + 1])
    <3>1. CASE i = n
      BY <1>1, <1>3, <2>3, <3>1
    <3>2. CASE i # n
      <4>1. i \in 1..n - 1 /\ i \in 1..n /\ i + 1 \in 1..n
        BY <1>1, <2>3, <3>2
      <4>2. e[i] = d[i] /\ e[i + 1] = d[i + 1]
        BY <2>3, <4>1
      <4> QED BY <2>4, <4>1, <4>2 DEF Mixed
    <3> QED BY <3>1, <3>2
  <2>5. Mixed(e)
    BY <2>4 DEF Mixed
  <2> QED BY <2>1, <2>2, <2>5
<1> QED BY <1>2, <1>3

LEMMA MergeMixed ==
  ASSUME NEW c, Listed(c)
  PROVE  Listed(Merge(c)) /\ Mixed(Merge(c)) /\ LastRole(Merge(c)) = LastRole(c)
<1>1. c \in Seq(Kinds) /\ Len(c) \in Nat /\ Len(c) >= 1 /\ LastRole(c) = Role(c[Len(c)])
  BY ListedLast DEF Listed
<1>2. PICK f : /\ Merge(c) = f[Len(c)]
               /\ \A i \in 0..Len(c) : f[i] = IF i = 0 THEN <<>> ELSE Joined(f[i - 1], c[i])
  BY <1>1, MergeWalk
<1> DEFINE S == {k \in Nat : k < Len(c) =>
                   Listed(f[k + 1]) /\ Mixed(f[k + 1]) /\ LastRole(f[k + 1]) = Role(c[k + 1])}
<1>3. 0 \in S
  <2>1. c[1] = "system"
    BY <1>1, Roles DEF Listed
  <2>2. f[0] = <<>> /\ f[1] = Joined(f[0], c[1])
    <3>1. 0 \in 0..Len(c) /\ 1 \in 0..Len(c) /\ 1 - 1 = 0 /\ 1 # 0
      BY <1>1
    <3>2. f[0] = <<>>
      BY <1>2, <3>1
    <3>3. f[1] = Joined(f[1 - 1], c[1])
      BY <1>2, <3>1
    <3> QED BY <3>1, <3>2, <3>3
  <2>3. f[0 + 1] = <<"system">>
    BY <2>1, <2>2 DEF Joined
  <2>4. Listed(<<"system">>) /\ LastRole(<<"system">>) = "system" /\ Mixed(<<"system">>)
    BY Roles DEF Listed, LastRole, Last, Mixed
  <2> QED BY <2>1, <2>3, <2>4, Roles
<1>4. ASSUME NEW k \in Nat, k \in S PROVE k + 1 \in S
  <2> SUFFICES ASSUME k + 1 < Len(c)
               PROVE  /\ Listed(f[(k + 1) + 1]) /\ Mixed(f[(k + 1) + 1])
                      /\ LastRole(f[(k + 1) + 1]) = Role(c[(k + 1) + 1])
    OBVIOUS
  <2> DEFINE j == k + 1
  <2>1. /\ j \in Nat /\ j >= 1 /\ j + 1 \in 1..Len(c) /\ j + 1 \in 0..Len(c) /\ j + 1 > 1
        /\ j + 1 # 0 /\ (j + 1) - 1 = j /\ k < Len(c)
    BY <1>1
  <2>2. Listed(f[j]) /\ Mixed(f[j])
    BY <1>4, <2>1
  <2>3. f[j + 1] = Joined(f[j], c[j + 1])
    BY <1>2, <2>1
  <2>4. c[j + 1] \in Kinds /\ Role(c[j + 1]) # "system"
    BY <1>1, <2>1 DEF Listed
  <2> HIDE DEF j
  <2>5. Listed(f[j + 1]) /\ Mixed(f[j + 1]) /\ LastRole(f[j + 1]) = Role(c[j + 1])
    BY <2>2, <2>3, <2>4, JoinedMixed
  <2> QED BY <2>5 DEF j
<1> HIDE DEF S
<1>5. \A k \in Nat : k \in S
  BY <1>3, <1>4, EveryNumber
<1>6. Len(c) - 1 \in Nat /\ Len(c) - 1 < Len(c) /\ (Len(c) - 1) + 1 = Len(c)
  BY <1>1
<1> QED BY <1>1, <1>2, <1>5, <1>6 DEF S

\* A strictly alternating conversation is a list.
LEMMA AlternatesListed ==
  ASSUME NEW c \in Seq(Kinds), Len(c) >= 1, Role(c[1]) = "system", Alternates(c)
  PROVE  Listed(c)
<1>1. \A i \in 1..Len(c) - 1 : Role(c[i + 1]) = IF Role(c[i]) = "user" THEN "assistant" ELSE "user"
  BY DEF Alternates
<1>2. ASSUME NEW i \in 1..Len(c), i > 1 PROVE Role(c[i]) # "system"
  <2>1. i - 1 \in 1..Len(c) - 1 /\ (i - 1) + 1 = i
    BY <1>2
  <2> QED BY <1>1, <2>1
<1> QED BY <1>1, <1>2 DEF Listed

\* The boundary goes between the system prompt and a first assistant message.
LEMMA BoundedAlternates ==
  ASSUME NEW d, Listed(d), Mixed(d), Len(d) > 1
  PROVE  /\ Bounded(d) \in Seq(Kinds) /\ Len(Bounded(d)) > 1
         /\ Role(Bounded(d)[1]) = "system" /\ Alternates(Bounded(d))
         /\ LastRole(Bounded(d)) = LastRole(d)
<1> DEFINE n == Len(d)
<1>1. d \in Seq(Kinds) /\ n \in Nat /\ n >= 2 /\ LastRole(d) = Role(d[n]) /\ Role(d[1]) = "system"
  BY ListedLast DEF Listed
<1>2. /\ 2 \in 1..n /\ 1 \in 1..n
      /\ \A i \in 1..n - 1 : i \in 1..n /\ i + 1 \in 1..n /\ i + 1 > 1
  BY <1>1
<1>3. \A i \in 1..n : d[i] \in Kinds /\ (i > 1 => Role(d[i]) \in {"user", "assistant"})
  <2>1. \A i \in 1..n : d[i] \in Kinds /\ (i > 1 => Role(d[i]) # "system")
    BY <1>1 DEF Listed
  <2> QED BY <2>1, Roles
<1>4. \A i \in 1..n - 1 : i > 1 =>
        Role(d[i + 1]) = IF Role(d[i]) = "user" THEN "assistant" ELSE "user"
  <2> SUFFICES ASSUME NEW i \in 1..n - 1, i > 1
               PROVE  Role(d[i + 1]) = IF Role(d[i]) = "user" THEN "assistant" ELSE "user"
    OBVIOUS
  <2>1. Role(d[i]) # Role(d[i + 1])
    BY DEF Mixed
  <2> QED BY <1>2, <1>3, <2>1
<1>5. CASE Role(d[2]) = "user"
  <2>1. Bounded(d) = d
    BY <1>5 DEF Bounded
  <2>2. Role(d[1 + 1]) = IF Role(d[1]) = "user" THEN "assistant" ELSE "user"
    BY <1>1, <1>5
  <2>3. Alternates(d)
    <3> SUFFICES ASSUME NEW i \in 1..n - 1
                 PROVE  Role(d[i + 1]) = IF Role(d[i]) = "user" THEN "assistant" ELSE "user"
      BY DEF Alternates
    <3>1. CASE i = 1
      BY <2>2, <3>1
    <3>2. CASE i # 1
      BY <1>4, <3>2
    <3> QED BY <3>1, <3>2
  <2> QED BY <1>1, <2>1, <2>3
<1>6. CASE Role(d[2]) = "assistant"
  <2> DEFINE e == <<d[1], "boundary">> \o Tail(d)
  <2>1. Bounded(d) = e
    BY <1>1, <1>6 DEF Bounded
  <2>2. "boundary" \in Kinds /\ Role("boundary") = "user"
    BY Roles DEF UserKinds, SyntheticKinds
  <2>3. /\ Tail(d) \in Seq(Kinds) /\ Len(Tail(d)) = n - 1
        /\ \A i \in 1..n - 1 : Tail(d)[i] = d[i + 1]
    BY <1>1
  <2>4. <<d[1], "boundary">> \in Seq(Kinds) /\ Len(<<d[1], "boundary">>) = 2
    BY <1>2, <1>3, <2>2
  <2>5. /\ e \in Seq(Kinds) /\ Len(e) = n + 1 /\ e[1] = d[1] /\ e[2] = "boundary"
        /\ \A i \in 1..n - 1 : e[i + 2] = d[i + 1]
    <3>1. /\ e \in Seq(Kinds) /\ Len(e) = 2 + (n - 1)
          /\ \A i \in 1..2 + (n - 1) :
               e[i] = IF i <= 2 THEN <<d[1], "boundary">>[i] ELSE Tail(d)[i - 2]
      BY <2>3, <2>4, ConcatProperties
    <3> HIDE DEF e
    <3>2. \A i \in 1..n - 1 : i + 2 \in 1..2 + (n - 1) /\ ~(i + 2 <= 2) /\ (i + 2) - 2 = i
      BY <1>1
    <3>3. 1 \in 1..2 + (n - 1) /\ 2 \in 1..2 + (n - 1) /\ 2 + (n - 1) = n + 1
      BY <1>1
    <3> QED BY <2>3, <3>1, <3>2, <3>3
  <2> HIDE DEF e
  <2>6. Alternates(e)
    <3> SUFFICES ASSUME NEW i \in 1..Len(e) - 1
                 PROVE  Role(e[i + 1]) = IF Role(e[i]) = "user" THEN "assistant" ELSE "user"
      BY DEF Alternates
    <3>1. CASE i = 1
      BY <1>1, <2>2, <2>5, <3>1
    <3>2. CASE i = 2
      <4>1. 1 \in 1..n - 1 /\ 1 + 2 = 3 /\ 1 + 1 = 2 /\ 2 + 1 = 3
        BY <1>1
      <4>2. e[3] = d[2]
        BY <2>5, <4>1
      <4> QED BY <1>6, <2>2, <2>5, <3>2, <4>1, <4>2
    <3>3. CASE i > 2
      <4>1. PICK j \in 1..n - 1 : j > 1 /\ j - 1 \in 1..n - 1 /\ i = (j - 1) + 2 /\ i + 1 = j + 2 /\ (j - 1) + 1 = j
        <5>1. i - 1 \in 1..n - 1 /\ i - 1 > 1 /\ (i - 1) - 1 \in 1..n - 1 /\ i = ((i - 1) - 1) + 2
              /\ i + 1 = (i - 1) + 2 /\ ((i - 1) - 1) + 1 = i - 1
          BY <1>1, <2>5, <3>3
        <5> QED BY <5>1
      <4>2. e[i] = d[j] /\ e[i + 1] = d[j + 1]
        BY <2>5, <4>1
      <4> QED BY <1>4, <4>1, <4>2
    <3> QED BY <2>5, <3>1, <3>2, <3>3
  <2>7. LastRole(e) = LastRole(d)
    <3>1. n - 1 \in 1..n - 1 /\ (n - 1) + 2 = n + 1 /\ (n - 1) + 1 = n
      BY <1>1
    <3>2. e[n + 1] = d[n]
      BY <2>5, <3>1
    <3> QED BY <1>1, <2>5, <3>2 DEF LastRole, Last
  <2> QED BY <1>1, <2>1, <2>5, <2>6, <2>7
<1> QED BY <1>2, <1>3, <1>5, <1>6

LEMMA OneOrMore == ASSUME NEW n \in Nat, n >= 1 PROVE n = 1 \/ n > 1
OBVIOUS

\* The message that may come next.
LEMMA AlternatesAppend ==
  ASSUME NEW c, Listed(c), Alternates(c), NEW m \in Kinds,
         Role(m) = IF LastRole(c) = "user" THEN "assistant" ELSE "user"
  PROVE  /\ Listed(Append(c, m)) /\ LastRole(Append(c, m)) = Role(m)
         /\ Alternates(Append(c, m))
<1> DEFINE e == Append(c, m)
           n == Len(c)
<1>1. c \in Seq(Kinds) /\ n \in Nat /\ n >= 1 /\ LastRole(c) = Role(c[n])
  BY ListedLast DEF Listed
<1>2. Listed(e) /\ LastRole(e) = Role(m)
  BY ListedAppend
<1>3. Len(e) = n + 1 /\ e[n + 1] = m /\ \A i \in 1..n : e[i] = c[i]
  BY <1>1
<1> HIDE DEF e
<1>4. Alternates(e)
  <2> SUFFICES ASSUME NEW i \in 1..Len(e) - 1
               PROVE  Role(e[i + 1]) = IF Role(e[i]) = "user" THEN "assistant" ELSE "user"
    BY DEF Alternates
  <2>1. CASE i = n
    BY <1>1, <1>3, <2>1
  <2>2. CASE i # n
    <3>1. i \in 1..n - 1 /\ i \in 1..n /\ i + 1 \in 1..n
      BY <1>1, <1>3, <2>2
    <3>2. e[i] = c[i] /\ e[i + 1] = c[i + 1]
      BY <1>3, <3>1
    <3> QED BY <3>1, <3>2 DEF Alternates
  <2> QED BY <2>1, <2>2
<1> QED BY <1>2, <1>4 DEF e

\* close_turn leaves a strictly alternating list that ends with a reply,
\* whatever list it is given.
LEMMA CloseCloses ==
  ASSUME NEW c, Listed(c)
  PROVE  Listed(Close(c)) /\ LastRole(Close(c)) = "assistant" /\ Alternates(Close(c))
<1> DEFINE d == Merge(c)
           b == Bounded(d)
<1>1. Listed(d) /\ Mixed(d)
  BY MergeMixed
<1> HIDE DEF d
<1>2. Len(d) = 1 \/ Len(d) > 1
  <2>1. Len(d) \in Nat /\ Len(d) >= 1
    BY <1>1 DEF Listed
  <2> QED BY <2>1, OneOrMore
<1>3. /\ "final" \in Kinds /\ Role("final") = "assistant"
      /\ "meta" \in Kinds /\ Role("meta") = "user"
  BY Roles DEF UserKinds, SyntheticKinds, AssistantKinds
<1>4. CASE Len(d) = 1
  <2>1. b = d
    BY <1>4 DEF Bounded
  <2>2. LastRole(d) = "system" /\ Alternates(d)
    BY <1>1, <1>4, ListedLast DEF Alternates
  <2>3. Close(c) = d \o <<"meta", "final">>
    <3> HIDE DEF b
    <3> QED BY <2>1, <2>2 DEF Close, b, d
  <2>4. d \o <<"meta", "final">> = Append(Append(d, "meta"), "final")
    <3>1. d \in Seq(Kinds)
      BY <1>1 DEF Listed
    <3> QED BY <1>3, <3>1
  <2>5. /\ Listed(Append(d, "meta")) /\ LastRole(Append(d, "meta")) = "user"
        /\ Alternates(Append(d, "meta"))
    BY <1>1, <1>3, <2>2, AlternatesAppend
  <2> DEFINE p == Append(d, "meta")
  <2> HIDE DEF p
  <2>6. Listed(Append(p, "final")) /\ LastRole(Append(p, "final")) = "assistant" /\ Alternates(Append(p, "final"))
    BY <1>3, <2>5, AlternatesAppend DEF p
  <2> QED BY <2>3, <2>4, <2>6 DEF p
<1>5. CASE Len(d) > 1
  <2>1. /\ b \in Seq(Kinds) /\ Len(b) > 1
        /\ Role(b[1]) = "system" /\ Alternates(b)
        /\ LastRole(b) = LastRole(d)
    BY <1>1, <1>5, BoundedAlternates
  <2>2. LastRole(b) \in {"user", "assistant"}
    BY <1>1, <1>5, <2>1, ListedLast
  <2> HIDE DEF b
  <2>3. Listed(b)
    BY <2>1, AlternatesListed
  <2>4. CASE LastRole(b) = "assistant"
    <3>1. Close(c) = b
      BY <2>4 DEF Close, b, d
    <3> QED BY <2>1, <2>3, <2>4, <3>1
  <2>5. CASE LastRole(b) = "user"
    <3>1. Close(c) = Append(b, "final")
      BY <2>5 DEF Close, b, d
    <3> QED BY <1>3, <2>1, <2>3, <2>5, <3>1, AlternatesAppend
  <2> QED BY <2>2, <2>4, <2>5
<1> QED BY <1>2, <1>4, <1>5

-----------------------------------------------------------------------------
(* The refinement                                                          *)

LEMMA StepRefines == [CNext]_cvars => [Next]_vars
<1> SUFFICES ASSUME [CNext]_cvars PROVE [Next]_vars
  OBVIOUS
<1>1. CASE CLoopStep
  BY <1>1 DEF CLoopStep, CCheckAndDrain, CDispatch, CStartIteration, CReplies,
              CCallFails, CRunCode, CNoCode, CFeedback, LoopStep, Next
<1>2. CASE CNext /\ ~CLoopStep
  BY <1>2 DEF CNext, CRequest, CExit, Next
<1>3. CASE UNCHANGED cvars
  BY <1>3 DEF cvars
<1> QED BY <1>1, <1>2, <1>3

\* The conversation is kept by the loop: every behaviour of RlmContext is one
\* of RlmLoop, so what is proved of the loop holds of the loop with its list.
THEOREM ContextRefinesLoop == CSpec => Spec
<1>1. CInit => Init
  BY DEF CInit
<1> QED BY <1>1, StepRefines, PTL DEF CSpec, Spec

-----------------------------------------------------------------------------
(* The list and the loop                                                   *)

\* Where the main thread is says what the list ends with: an assistant
\* message from the reply to the feedback, and before the call a user
\* message, but for an activation that goes on after a nested segment.
Placed ==
  /\ pc = "idle" => tail # "user"
  /\ pc \in {"run", "prose", "feedback"} => tail = "assistant"
  /\ pc \in {"check", "dispatch", "call"} /\ ~Top.resumed => tail = "user"

\* The inductive invariant, with type correctness.
Kept == Listed(ctx) /\ TailFaithful /\ Placed /\ ClosedTurnAlternates

\* An activation ends, and the turn is closed over whatever list is left.
LEMMA KeptAfterReturn ==
  ASSUME TypeOK, Busy,
         NEW how \in Endings, NEW content \in Nat, NEW reason \in BOOLEAN,
         Return(how, content, reason), tail' = "assistant",
         NEW c, Listed(c), Ends => ctx' = Close(c)
  PROVE  Kept'
<1>1. /\ Len(frames) \in Nat /\ Len(frames) >= 1 /\ Len(frames') = Len(frames) - 1
      /\ pc' \in {"idle", "check"}
  BY ReturnFacts, TopType
<1>2. ctx' = Close(c)
  BY <1>1 DEF Ends
<1>3. Listed(ctx') /\ LastRole(ctx') = "assistant" /\ Alternates(ctx')
  BY <1>2, CloseCloses
<1>4. pc' = "check" => Top'.resumed
  BY TopAfterReturn
<1> QED BY <1>1, <1>3, <1>4 DEF Kept, TailFaithful, Placed, ClosedTurnAlternates

LEMMA EndsNot ==
  ASSUME TypeOK, Busy, NEW f \in Frame, frames' = SetTop(f)
  PROVE  ~Ends /\ Len(frames') = Len(frames) /\ Top' = f
<1>1. Len(frames') = Len(frames) /\ Top' = f /\ Len(frames) \in Nat
  BY TopAfterSet, TopType
<1> QED BY <1>1 DEF Ends

\* An iteration fails over a list that ends with a user message.
LEMMA KeptAfterFailure ==
  ASSUME TypeOK, Busy, NEW a \in Answer, NEW pending \in BOOLEAN,
         IterationFails(a, pending),
         NEW c, Listed(c), LastRole(c) = "user",
         ctx' = IF Ends THEN Close(c) ELSE c
  PROVE  Kept'
<1> DEFINE f == FailedOnce(Top)
<1>1. f \in Frame
  BY TopType, FrameUpdates
<1>2. CASE f.errors >= MaxErrors
  <2>1. a.content \in Nat /\ Return("errors", a.content, FALSE) /\ tail' = "assistant"
    BY <1>2 DEF IterationFails, ForceEnd, Answer
  <2> QED BY <2>1, KeptAfterReturn DEF Endings
<1>3. CASE ~(f.errors >= MaxErrors)
  <2>1. frames' = SetTop(f) /\ pc' = "check" /\ tail' = "user"
    BY <1>3 DEF IterationFails
  <2> HIDE DEF f
  <2>2. ctx' = c
    BY <1>1, <2>1, EndsNot
  <2> QED BY <2>1, <2>2 DEF Kept, TailFaithful, Placed, ClosedTurnAlternates
<1> QED BY <1>2, <1>3

LEMMA EndKept ==
  ASSUME TypeOK, Busy,
         NEW how \in Endings, NEW a \in Answer, NEW reason \in BOOLEAN,
         ForceEnd(how, a, reason),
         NEW c, Listed(c), Ends => ctx' = Close(c)
  PROVE  Kept'
<1>1. a.content \in Nat /\ Return(how, a.content, reason) /\ tail' = "assistant"
  BY DEF ForceEnd, Answer
<1> QED BY <1>1, KeptAfterReturn

\* The list is left alone, and so is the activation.
LEMMA KeptUntouched ==
  ASSUME Kept, UNCHANGED <<ctx, tail, pc, frames>>
  PROVE  Kept'
BY DEF Kept, TailFaithful, Placed, ClosedTurnAlternates, Top

LEMMA KeptRequest ==
  ASSUME TypeOK, Kept, NEW k \in 1..MaxSegments, CRequest(k)
  PROVE  Kept'
<1>1. pc = "idle" /\ pc' = "check" /\ tail' = "user" /\ ctx' = Append(ctx, "real")
  BY DEF CRequest, Request, BeginTurn
<1>2. Listed(ctx) /\ LastRole(ctx) # "user"
  BY <1>1 DEF Kept, TailFaithful, Placed
<1>3. "real" \in Kinds /\ Role("real") = "user"
  BY Roles DEF UserKinds
<1>4. Listed(ctx') /\ LastRole(ctx') = "user"
  BY <1>1, <1>2, <1>3, ListedAppend
<1> QED BY <1>1, <1>4 DEF Kept, TailFaithful, Placed, ClosedTurnAlternates

LEMMA KeptExit ==
  ASSUME Kept, CExit
  PROVE  Kept'
<1>1. pc' = "exited" /\ tail' = "assistant" /\ ctx' = Close(Cleanup(ctx))
  BY DEF CExit, Exit
<1>2. Listed(Cleanup(ctx))
  BY CleanupListed DEF Kept
<1>3. Listed(ctx') /\ LastRole(ctx') = "assistant"
  BY <1>1, <1>2, CloseCloses
<1> QED BY <1>1, <1>3 DEF Kept, TailFaithful, Placed, ClosedTurnAlternates

LEMMA KeptCheck ==
  ASSUME TypeOK, Kept, CCheckAndDrain
  PROVE  Kept'
<1>1. Busy /\ pc = "check" /\ ctx' = CloseIfEnds(ctx) /\ Listed(ctx)
  BY DEF CCheckAndDrain, CheckAndDrain, Busy, Kept
<1>2. CASE ForceEnd("interrupted", ans, FALSE)
  BY <1>1, <1>2, EndKept DEF CloseIfEnds, Endings, TypeOK
<1>3. CASE pc' = "dispatch" /\ UNCHANGED <<frames, tail>>
  <2>1. ~Ends
    BY <1>1, <1>3, TopType DEF Ends
  <2>2. ctx' = ctx
    BY <1>1, <2>1 DEF CloseIfEnds
  <2> QED BY <1>1, <1>3, <2>2 DEF Kept, TailFaithful, Placed, ClosedTurnAlternates, Top
<1> QED BY <1>2, <1>3 DEF CCheckAndDrain, CheckAndDrain

LEMMA KeptDispatch ==
  ASSUME TypeOK, Kept, CDispatch
  PROVE  Kept'
<1> DEFINE t == Head(cmds).type
<1>1. /\ pc = "dispatch" /\ pc' = "dispatch" /\ UNCHANGED frames
      /\ tail' = IF t \in {"inject", "summarise", "redirect"} THEN "user" ELSE tail
  BY DEF CDispatch, Dispatch, turnVars
<1>2. Listed(ctx) /\ tail = LastRole(ctx) /\ (~Top.resumed => tail = "user") /\ Top' = Top
  BY <1>1 DEF Kept, TailFaithful, Placed, Top
<1> HIDE DEF t
<1>3. CASE t \in {"inject", "summarise"}
  <2>1. ctx' = Bridged(ctx, "inject")
    BY <1>3 DEF CDispatch, t
  <2>2. "inject" \in UserKinds
    BY DEF UserKinds, SyntheticKinds
  <2>3. Listed(ctx') /\ LastRole(ctx') = "user"
    BY <1>2, <2>1, <2>2, BridgedListed
  <2> QED BY <1>1, <1>3, <2>3 DEF Kept, TailFaithful, Placed, ClosedTurnAlternates
<1>4. CASE t = "redirect"
  <2>1. ctx' = <<"system", "redirect">>
    BY <1>4 DEF CDispatch, t, Redirected
  <2>2. Listed(ctx') /\ LastRole(ctx') = "user"
    <3>1. "redirect" \in Kinds /\ Role("redirect") = "user" /\ "system" \in Kinds /\ Role("system") = "system"
      BY Roles DEF UserKinds
    <3>2. Listed(<<"system", "redirect">>)
      BY <3>1 DEF Listed
    <3> QED BY <2>1, <3>1, <3>2 DEF LastRole, Last
  <2> QED BY <1>1, <1>4, <2>2 DEF Kept, TailFaithful, Placed, ClosedTurnAlternates
<1>5. CASE t \notin {"inject", "summarise", "redirect"}
  <2>1. ctx' = ctx
    BY <1>5 DEF CDispatch, t
  <2> QED BY <1>1, <1>2, <1>5, <2>1 DEF Kept, TailFaithful, Placed, ClosedTurnAlternates
<1> QED BY <1>3, <1>4, <1>5

LEMMA KeptStart ==
  ASSUME TypeOK, Kept, CStartIteration
  PROVE  Kept'
<1>1. /\ Busy /\ pc = "dispatch" /\ StartIteration
      /\ ctx' = CloseIfEnds(ctx) /\ Listed(ctx)
  BY DEF CStartIteration, StartIteration, Busy, Kept
<1>2. CASE ForceEnd("interrupted", ans, FALSE) \/ ForceEnd("max_turns", ans, ans.content = Nothing)
  BY <1>1, <1>2, EndKept DEF CloseIfEnds, Endings, TypeOK
<1>3. CASE pc' = "call" /\ UNCHANGED tail
  <2>1. Top' \in Frame /\ frames' = SetTop(Top')
    BY <1>1, <1>3, TopAfterStart
  <2>2. ctx' = ctx
    <3>1. PICK f \in Frame : frames' = SetTop(f)
      BY <2>1
    <3> QED BY <1>1, <3>1, EndsNot DEF CloseIfEnds
  <2>3. Top'.resumed = Top.resumed
    <3>1. Top \in Frame
      BY <1>1, TopType
    <3> QED BY <1>1, <1>3, <3>1, TopAfterStart DEF Frame
  <2> QED BY <1>1, <1>3, <2>2, <2>3 DEF Kept, TailFaithful, Placed, ClosedTurnAlternates
<1> QED BY <1>1, <1>2, <1>3 DEF StartIteration

LEMMA KeptReply ==
  ASSUME Kept, NEW kind \in {"run", "prose"}, CReplies(kind)
  PROVE  Kept'
<1> DEFINE c == IF cleanupPending THEN Cleanup(ctx) ELSE ctx
<1>1. pc' \in {"run", "prose"} /\ tail' = "assistant" /\ ctx' = Append(c, "reply")
  BY DEF CReplies, Replies
<1>2. Listed(c)
  BY CleanupListed DEF Kept
<1>3. "reply" \in Kinds /\ Role("reply") = "assistant"
  BY Roles DEF AssistantKinds
<1> HIDE DEF c
<1>4. Listed(ctx') /\ LastRole(ctx') = "assistant"
  BY <1>1, <1>2, <1>3, ListedAppend
<1> QED BY <1>1, <1>4 DEF Kept, TailFaithful, Placed, ClosedTurnAlternates

LEMMA KeptCallFails ==
  ASSUME TypeOK, Kept, CCallFails
  PROVE  Kept'
<1>1. Busy /\ IterationFails(ans, cleanupPending) /\ ans \in Answer /\ cleanupPending \in BOOLEAN
      /\ Listed(ctx) /\ ctx \in Seq(Kinds)
  BY DEF CCallFails, CallFails, Busy, TypeOK, Kept, Listed
<1>2. /\ "reply" \in Kinds /\ Role("reply") = "assistant"
      /\ "repl" \in Kinds /\ Role("repl") = "user"
      /\ "error" \in Kinds /\ Role("error") = "user"
  BY Roles DEF AssistantKinds, UserKinds, SyntheticKinds
<1>3. Listed(Aborted(ctx)) /\ LastRole(Aborted(ctx)) = "user"
  <2>1. Listed(Append(ctx, "reply")) /\ LastRole(Append(ctx, "reply")) = "assistant"
    BY <1>1, <1>2, ListedAppend
  <2> DEFINE p == Append(ctx, "reply")
  <2>2. ctx \o <<"reply", "repl">> = Append(p, "repl")
    BY <1>1, <1>2
  <2> HIDE DEF p
  <2>3. Listed(Append(p, "repl")) /\ LastRole(Append(p, "repl")) = "user"
    BY <1>2, <2>1, ListedAppend DEF p
  <2> QED BY <2>2, <2>3 DEF Aborted
<1>4. Listed(Errored(ctx)) /\ LastRole(Errored(ctx)) = "user"
  BY <1>1, <1>2, ListedAppend DEF Errored
<1>5. PICK c \in {Aborted(ctx), Errored(ctx)} : ctx' = IF Ends THEN Close(c) ELSE c
  BY DEF CCallFails, CloseIfEnds
<1>6. Listed(c) /\ LastRole(c) = "user"
  BY <1>3, <1>4, <1>5
<1> QED BY <1>1, <1>5, <1>6, KeptAfterFailure

LEMMA KeptRun ==
  ASSUME TypeOK, Kept, NEW outcome \in Outcomes, CRunCode(outcome)
  PROVE  Kept'
<1>1. /\ Busy /\ RunCode(outcome) /\ ctx' = CloseIfEnds(ctx)
      /\ Listed(ctx) /\ tail = "assistant"
  BY DEF CRunCode, RunCode, Busy, Kept, Placed
<1> DEFINE f == AfterRun(Top, outcome)
<1>2. CASE f.errors >= MaxErrors
  <2>1. PICK b \in Answer : ForceEnd("errors", b, FALSE)
    <3>1. PICK b \in Answer : b = ans'
      BY <1>1, AnswerTypes DEF RunCode
    <3> QED BY <1>1, <1>2, <3>1 DEF RunCode
  <2> QED BY <1>1, <2>1, EndKept DEF CloseIfEnds, Endings
<1>3. CASE ~(f.errors >= MaxErrors)
  <2>1. frames' = SetTop(f) /\ pc' = "feedback" /\ tail' = "assistant"
    BY <1>1, <1>3 DEF RunCode
  <2>2. f \in Frame
    BY <1>1, TopType, FrameUpdates
  <2> HIDE DEF f
  <2>3. ctx' = ctx
    BY <1>1, <2>1, <2>2, EndsNot DEF CloseIfEnds
  <2> QED BY <1>1, <2>1, <2>3 DEF Kept, TailFaithful, Placed, ClosedTurnAlternates
<1> QED BY <1>2, <1>3

LEMMA KeptNoCode ==
  ASSUME TypeOK, Kept, CNoCode
  PROVE  Kept'
<1>1. /\ Busy /\ NoCode /\ ctx' = CloseIfEnds(ctx)
      /\ Listed(ctx) /\ tail = "assistant"
  BY DEF CNoCode, NoCode, Busy, Kept, Placed
<1>2. CASE ForceEnd("no_code", ans, FALSE)
  BY <1>1, <1>2, EndKept DEF CloseIfEnds, Endings, TypeOK
<1>3. CASE frames' = SetTop([Top EXCEPT !.prose = @ + 1]) /\ pc' = "feedback" /\ UNCHANGED tail
  <2> DEFINE f == [Top EXCEPT !.prose = Top.prose + 1]
  <2>1. Top \in Frame /\ Top.prose + 1 \in Nat
    BY <1>1, TopType DEF Frame
  <2>2. f \in Frame /\ frames' = SetTop(f)
    BY <1>3, <2>1 DEF Frame
  <2> HIDE DEF f
  <2>3. ctx' = ctx
    BY <1>1, <2>2, EndsNot DEF CloseIfEnds
  <2> QED BY <1>1, <1>3, <2>3 DEF Kept, TailFaithful, Placed, ClosedTurnAlternates
<1> QED BY <1>1, <1>2, <1>3 DEF NoCode

\* A segment taken off the pending lists changes them.
LEMMA PopChanges ==
  ASSUME NEW s \in Seq(Nat \ {0}), s # <<>>
  PROVE  PopSegment(s) # s
<1>1. Len(s) \in Nat /\ Len(s) >= 1 /\ s[Len(s)] \in Nat \ {0}
  OBVIOUS
<1>2. CASE s[Len(s)] = 1
  <2>1. Len(SubSeq(s, 1, Len(s) - 1)) = Len(s) - 1
    BY <1>1, FrontFacts
  <2> QED BY <1>1, <1>2, <2>1 DEF PopSegment
<1>3. CASE s[Len(s)] # 1
  <2>1. PopSegment(s)[Len(s)] = s[Len(s)] - 1
    BY <1>1, <1>3 DEF PopSegment
  <2> QED BY <1>1, <2>1
<1> QED BY <1>2, <1>3

\* The feedback, and what the gate makes of it: the turn closed, a segment
\* begun or skipped, or the next iteration.
LEMMA KeptFeedback ==
  ASSUME TypeOK, Kept, NEW multi \in BOOLEAN, NEW stagnant \in BOOLEAN,
         CFeedback(multi, stagnant)
  PROVE  Kept'
<1> DEFINE a == AfterEOT(ans, multi)
           n == AfterEOT(ns, multi)
           total == IF stagnant THEN warnings + 1 ELSE warnings
           c == Append(ctx, "repl")
<1>1. Busy /\ Feedback(multi, stagnant) /\ a \in Answer /\ Listed(ctx) /\ tail = "assistant"
      /\ LastRole(ctx) = "assistant" /\ Len(frames) \in Nat /\ segs \in Seq(Nat \ {0})
  <2>1. Busy /\ Feedback(multi, stagnant) /\ Listed(ctx) /\ tail = "assistant" /\ LastRole(ctx) = "assistant"
    BY DEF CFeedback, Feedback, Busy, Kept, Placed, TailFaithful
  <2> QED BY <2>1, AnswerTypes, TopType DEF TypeOK
<1>2. ctx' = CASE Ends -> Close(c)
               [] Len(frames') > Len(frames) -> Append(Close(c), "real")
               [] Len(frames') = Len(frames) /\ segs' # segs -> Close(c)
               [] OTHER -> c
  BY DEF CFeedback
<1>3. Listed(c) /\ LastRole(c) = "user"
  <2>1. "repl" \in Kinds /\ Role("repl") = "user"
    BY Roles DEF UserKinds
  <2> QED BY <1>1, <2>1, ListedAppend
<1> HIDE DEF a, n, total, c
<1>4. Ends => ctx' = Close(c)
  <2> SUFFICES ASSUME Ends PROVE ctx' = Close(c)
    OBVIOUS
  <2>1. Len(frames') < Len(frames)
    BY DEF Ends
  <2>2. ~(Len(frames') > Len(frames)) /\ ~(Len(frames') = Len(frames))
    BY <1>1, <2>1
  <2> QED BY <1>2, <2>2
<1>5. CASE a.text /\ ForceEnd("loop", a, FALSE)
  BY <1>1, <1>3, <1>4, <1>5, EndKept DEF Endings
<1>6. CASE /\ UNCHANGED segs /\ ~a.text
           /\ IterationFails(a, TRUE)
  <2>1. Len(frames') = Len(frames) \/ Ends
    <3> DEFINE f == FailedOnce(Top)
    <3>1. f \in Frame
      BY <1>1, TopType, FrameUpdates
    <3>2. CASE f.errors >= MaxErrors
      <4>1. a.content \in Nat /\ Return("errors", a.content, FALSE)
        BY <1>1, <1>6, <3>2 DEF IterationFails, ForceEnd, Answer
      <4>2. Len(frames') = Len(frames) - 1
        BY <1>1, <4>1, ReturnFacts DEF Endings
      <4> QED BY <1>1, <4>2 DEF Ends
    <3>3. CASE ~(f.errors >= MaxErrors)
      <4>1. frames' = SetTop(f)
        BY <1>6, <3>3 DEF IterationFails
      <4> HIDE DEF f
      <4> QED BY <1>1, <3>1, <4>1, EndsNot
    <3> QED BY <3>2, <3>3
  <2>2. ctx' = IF Ends THEN Close(c) ELSE c
    <3>1. CASE Ends
      BY <1>4, <3>1
    <3>2. CASE ~Ends
      <4>1. ~(Len(frames') > Len(frames))
        BY <1>1, <2>1, <3>2
      <4> QED BY <1>2, <1>6, <3>2, <4>1
    <3> QED BY <3>1, <3>2
  <2> QED BY <1>1, <1>3, <1>6, <2>2, KeptAfterFailure
<1>7. CASE segs # <<>> /\ NextSegment(a, n, total)
  <2>1. segs' # segs
    BY <1>1, <1>7, PopChanges DEF NextSegment
  <2>2. Listed(Close(c)) /\ LastRole(Close(c)) = "assistant"
    BY <1>3, CloseCloses
  <2>3. CASE BeginTurn(frames)
    <3>1. pc' = "check" /\ tail' = "user" /\ Len(frames') = Len(frames) + 1
      BY <1>1, <2>3 DEF BeginTurn, TypeOK
    <3>2. ~Ends /\ Len(frames') > Len(frames) /\ ~(Len(frames') = Len(frames))
      BY <1>1, <3>1 DEF Ends
    <3>3. ctx' = Append(Close(c), "real")
      BY <1>2, <3>2
    <3>4. "real" \in Kinds /\ Role("real") = "user"
      BY Roles DEF UserKinds
    <3>5. Listed(ctx') /\ LastRole(ctx') = "user"
      BY <2>2, <3>3, <3>4, ListedAppend
    <3> QED BY <3>1, <3>5 DEF Kept, TailFaithful, Placed, ClosedTurnAlternates
  <2>4. CASE tail' = "assistant" /\ pc' = "check" /\ frames' = SetTop(Resume(Top))
    <3>1. Top \in Frame /\ Resume(Top) \in Frame /\ Resume(Top).resumed
      <4>1. Top \in Frame
        BY <1>1, TopType
      <4> QED BY <4>1, FrameUpdates DEF Resume, Frame
    <3>2. ~Ends /\ Len(frames') = Len(frames) /\ Top' = Resume(Top)
      BY <1>1, <2>4, <3>1, EndsNot
    <3>3. ~(Len(frames') > Len(frames))
      BY <1>1, <3>2
    <3>4. ctx' = Close(c)
      BY <1>2, <2>1, <3>2, <3>3
    <3> QED BY <2>2, <2>4, <3>1, <3>2, <3>4 DEF Kept, TailFaithful, Placed, ClosedTurnAlternates
  <2> QED BY <1>7, <2>3, <2>4 DEF NextSegment
<1>8. CASE tail' = "assistant" /\ Return("answer", a.content, FALSE)
  <2>1. a.content \in Nat
    BY <1>1 DEF Answer
  <2> QED BY <1>1, <1>3, <1>4, <1>8, <2>1, KeptAfterReturn DEF Endings
<1>9. CASE FeedbackMessage /\ pc' = "check" /\ UNCHANGED <<frames, segs>>
  <2>1. ~Ends /\ ~(Len(frames') > Len(frames)) /\ segs' = segs
    BY <1>1, <1>9 DEF Ends
  <2>2. ctx' = c
    BY <1>2, <2>1
  <2> QED BY <1>3, <1>9, <2>2 DEF FeedbackMessage, Kept, TailFaithful, Placed, ClosedTurnAlternates
<1> QED BY <1>1, <1>5, <1>6, <1>7, <1>8, <1>9 DEF Feedback, a, n, total

LEMMA KeptInductive ==
  ASSUME TypeOK, Kept, [CNext]_cvars
  PROVE  Kept'
<1>1. CASE \E k \in 1..MaxSegments : CRequest(k)
  BY <1>1, KeptRequest
<1>2. CASE CExit
  BY <1>2, KeptExit
<1>3. CASE CLoopStep
  BY <1>3, KeptCheck, KeptDispatch, KeptStart, KeptReply, KeptCallFails, KeptRun,
     KeptNoCode, KeptFeedback DEF CLoopStep
<1>4. CASE (\E c \in Commands : SteerRead(c)) /\ UNCHANGED ctx
  BY <1>4, KeptUntouched DEF SteerRead, turnVars
<1>5. CASE SteerSend /\ UNCHANGED ctx
  BY <1>5, KeptUntouched DEF SteerSend, turnVars
<1>6. CASE Interrupt /\ UNCHANGED ctx
  <2>1. UNCHANGED <<ctx, tail, frames>> /\ (pc' = pc \/ pc' = "exited")
    BY <1>6 DEF Interrupt
  <2> QED BY <2>1 DEF Kept, TailFaithful, Placed, ClosedTurnAlternates, Top
<1>7. CASE UNCHANGED cvars
  BY <1>7, KeptUntouched DEF cvars, vars, turnVars
<1> QED BY <1>1, <1>2, <1>3, <1>4, <1>5, <1>6, <1>7 DEF CNext

LEMMA KeptAlways == CSpec => []Kept
<1>1. CInit => Kept
  <2> SUFFICES ASSUME CInit PROVE Kept
    OBVIOUS
  <2>1. pc = "idle" /\ tail = "system" /\ ctx = <<"system">>
    BY DEF CInit, Init
  <2>2. "system" \in Kinds /\ Role("system") = "system"
    BY Roles
  <2>3. Listed(ctx) /\ LastRole(ctx) = "system"
    BY <2>1, <2>2 DEF Listed, LastRole, Last
  <2> QED BY <2>1, <2>3 DEF Kept, TailFaithful, Placed, ClosedTurnAlternates
<1> QED BY <1>1, KeptInductive, ContextRefinesLoop, TypeCorrect, PTL DEF CSpec

-----------------------------------------------------------------------------
(* The theorems                                                            *)

\* The one word the loop keeps of the list is right: after every step its
\* tail is the role of the last message, for lists of any length.
THEOREM TailIsFaithful == CSpec => []TailFaithful
<1>1. Kept => TailFaithful
  BY DEF Kept
<1> QED BY <1>1, KeptAlways, PTL

\* The model is called on a list that ends with a user message, whatever was
\* injected, redirected, cleaned up or failed before, and however many
\* segments are pending, but for an activation resumed after a segment.
THEOREM CallsFindUser == CSpec => []CallsOnUser
<1>1. Kept => CallsOnUser
  BY DEF Kept, TailFaithful, Placed, CallsOnUser
<1> QED BY <1>1, KeptAlways, PTL

\* No two user messages ever stand side by side.
THEOREM UsersApart == CSpec => []NoAdjacentUsers
<1>1. Kept => NoAdjacentUsers
  BY DEF Kept, Listed, NoAdjacentUsers
<1> QED BY <1>1, KeptAlways, PTL

\* A closed turn leaves a strictly alternating conversation.
THEOREM ClosedAlternates == CSpec => []ClosedTurnAlternates
<1>1. Kept => ClosedTurnAlternates
  BY DEF Kept
<1> QED BY <1>1, KeptAlways, PTL

=============================================================================
