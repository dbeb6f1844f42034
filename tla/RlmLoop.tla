------------------------------ MODULE RlmLoop ------------------------------
(***************************************************************************)
(* The turn loop of one TauRLM agent: run_rlm_loop, the handlers of the    *)
(* control queue it drains at every iteration, the answer it syncs with    *)
(* the REPL kernel, the Markdown segments that nest one turn in another,   *)
(* and the two other parties that touch its state: the input thread, which *)
(* turns "+..." lines into control commands, and the SIGINT handler.       *)
(*                                                                         *)
(* The main thread is the process pc describes.  Only the points at which  *)
(* it looks at state another party writes are separate steps: the two      *)
(* lifecycle checks, the drain of the queue, the LLM call, the execution   *)
(* of the reply's code.  Of the conversation only the role of the last     *)
(* message is kept here (tail); RlmContext adds the messages.              *)
(***************************************************************************)
EXTENDS Integers, Sequences

CONSTANTS
  MaxTurns,       \* rlm.max_turns: iterations of one activation of the loop
  MaxErrors,      \* max_consecutive_errors (5)
  NoCodeForce,    \* _NO_CODE_FORCE (5)
  ForceWarnings,  \* LoopDetector.end_turn_threshold (15): escalation level 4
  QueueCap,       \* capacity of the control queue (100)
  Commands,       \* the control commands somebody may send
  MaxRequests,    \* bound: requests typed at the prompt, a command's segments counted
  MaxSent,        \* bound: steering lines typed
  MaxSegments     \* bound: segments of one Markdown command (1: plain prompts)

CommandTypes == {"inject", "stop", "summarise", "exit", "redirect"}

ASSUME LoopAssumption ==
  /\ MaxTurns \in Nat /\ MaxRequests \in Nat /\ MaxSent \in Nat
  /\ MaxErrors \in Nat \ {0} /\ NoCodeForce \in Nat \ {0}
  /\ ForceWarnings \in Nat \ {0} /\ QueueCap \in Nat \ {0}
  /\ MaxSegments \in Nat \ {0}
  /\ Commands \subseteq CommandTypes

VARIABLES
  pc,             \* where the main thread is
  frames,         \* stack of activations of run_rlm_loop, innermost last
  reply,          \* what the last activation to return returned
  ans,            \* AnswerManager: what get_answer() snapshots
  ns,             \* namespace["answer"] of the kernel
  tail,           \* role of the last message of the context
  cleanupPending, \* agent._cleanup_pending
  noCode,         \* agent._no_code_streak
  warnings,       \* loop_detector.total_warnings
  forceEnd,       \* agent.force_end_turn is set
  segs,           \* agent._pending_md_segments: how many are left, per command
  turnActive,     \* agent._turn_active
  interrupted,    \* AgentLifecycle._interrupted
  exitReq,        \* AgentLifecycle._exit_requested
  queue,          \* the control queue
  cmds,           \* commands drained and not dispatched yet
  steer,          \* the command the input thread is about to send
  task,           \* tasks so far: each activation and each redirect starts one
  requests,       \* requests typed so far, segments counted
  sent            \* steering lines typed so far

turnVars   == <<pc, frames, reply, turnActive>>
answerVars == <<ans, ns>>
streakVars == <<noCode, warnings>>
flagVars   == <<interrupted, exitReq>>
steerVars  == <<queue, cmds, steer>>
boundVars  == <<requests, sent>>

vars == <<turnVars, answerVars, streakVars, flagVars, steerVars, boundVars,
          tail, cleanupPending, forceEnd, segs, task>>

-----------------------------------------------------------------------------
(* Values.  The content of an answer is the number of the task during      *)
(* which it was written, 0 when there is none; text says that it can be    *)
(* sliced, as a string, which the model's code need not respect.           *)

Nothing == 0
NoAnswer == [content |-> Nothing, ready |-> FALSE, text |-> TRUE]
Answer == [content : Nat, ready : BOOLEAN, text : BOOLEAN]

Waiting == [type |-> "none", turn |-> 0]   \* the input thread holds no command
Command == [type : Commands, turn : Nat]

\* How an activation of the loop can end.
Endings == {"answer", "interrupted", "max_turns", "errors", "no_code", "loop"}
NoReply == [how |-> "none", content |-> Nothing, reason |-> FALSE]
Reply == [how : Endings \cup {"none"}, content : Nat, reason : BOOLEAN]

(* An activation: the locals turn_count, consecutive_errors and            *)
(* _errors_counted_this_turn (counted), and what only the properties read: *)
(* the iterations since, and with, the one whose code last printed         *)
(* something (barren), the prose replies in a row (prose), the LLM calls   *)
(* made after a stop was handled (afterStop), the task it was started with *)
(* (base) and whether a nested segment has run inside it (resumed).        *)
Frame == [turns : Nat, errors : Nat, counted : BOOLEAN, barren : Nat,
          prose : Nat, afterStop : Nat, base : Nat, resumed : BOOLEAN]

\* Mutant: the error count an attribute of the agent, as the prose streak is.
KeepsErrors(b) ==
  [turns |-> 0, errors |-> IF frames = <<>> THEN 0 ELSE frames[Len(frames)].errors,
   counted |-> FALSE, barren |-> 0,
   prose |-> 0, afterStop |-> 0, base |-> b, resumed |-> FALSE]

NewFrame(b) == [turns |-> 0, errors |-> 0, counted |-> FALSE, barren |-> 0,
                prose |-> 0, afterStop |-> 0, base |-> b, resumed |-> FALSE]

Resume(f) == [f EXCEPT !.resumed = TRUE]

Top == frames[Len(frames)]
SetTop(f) == [frames EXCEPT ![Len(frames)] = f]

PCs == {"idle", "check", "dispatch", "call", "run", "prose", "feedback", "exited"}
Busy == pc \notin {"idle", "exited"}

TypeOK ==
  /\ pc \in PCs
  /\ frames \in Seq(Frame)
  /\ Busy => frames # <<>>
  /\ reply \in Reply
  /\ ans \in Answer /\ ns \in Answer
  /\ tail \in {"system", "user", "assistant"}
  /\ cleanupPending \in BOOLEAN /\ forceEnd \in BOOLEAN
  /\ turnActive \in BOOLEAN /\ interrupted \in BOOLEAN /\ exitReq \in BOOLEAN
  /\ noCode \in Nat /\ warnings \in Nat
  /\ segs \in Seq(Nat \ {0})
  /\ queue \in Seq(Command) /\ cmds \in Seq(Command)
  /\ steer \in Command \cup {Waiting}
  /\ task \in Nat /\ requests \in Nat /\ sent \in Nat

Init ==
  /\ pc = "idle" /\ frames = <<>> /\ reply = NoReply /\ turnActive = FALSE
  /\ ans = NoAnswer /\ ns = NoAnswer
  /\ tail = "system" /\ cleanupPending = FALSE /\ forceEnd = FALSE
  /\ noCode = 0 /\ warnings = 0
  /\ segs = <<>>
  /\ interrupted = FALSE /\ exitReq = FALSE
  /\ queue = <<>> /\ cmds = <<>> /\ steer = Waiting
  /\ task = 0 /\ requests = 0 /\ sent = 0

-----------------------------------------------------------------------------
(* Starting and ending an activation                                       *)

ResetManagerOnly == ans' = NoAnswer /\ ns' = ns

\* What a new turn does to the answer: the manager and the kernel's dict.
ResetAnswer == ans' = NoAnswer /\ ns' = NoAnswer

\* Mutant: the streak of prose replies is carried over.
KeepNoCodeStreak == noCode' = noCode /\ warnings' = 0

\* ... and to the two escalation counters of the agent.
ResetStreaks == noCode' = 0 /\ warnings' = 0

\* invoke() up to the first iteration: the request is appended and the
\* per-turn state of the agent is reset (run_rlm_loop's prologue).
BeginTurn(stack) ==
  /\ turnActive' = TRUE
  /\ tail' = "user"
  /\ task' = task + 1
  /\ frames' = Append(stack, NewFrame(task'))
  /\ forceEnd' = FALSE
  /\ ResetStreaks
  /\ ResetAnswer
  /\ pc' = "check"

\* run_rlm_loop returns, and invoke() with it: to the prompt, or to the
\* activation whose exit gate started this one, which then continues.
Return(how, content, reason) ==
  /\ reply' = [how |-> how, content |-> content, reason |-> reason]
  /\ turnActive' = FALSE
  /\ LET outer == SubSeq(frames, 1, Len(frames) - 1)
     IN  /\ frames' = IF outer = <<>> THEN outer
                      ELSE [outer EXCEPT ![Len(outer)] = Resume(@)]
         /\ pc' = IF outer = <<>> THEN "idle" ELSE "check"

\* Mutant: an early exit that does not close the turn.
ForceEndUnclosed(how, a, reason) ==
  /\ cleanupPending' = TRUE
  /\ UNCHANGED tail
  /\ Return(how, a.content, reason)

\* Every early exit: close_turn(..., skip_cleanup=True), then return
\* _answer_to_str(answer) if answer else a reason.  An AnswerState is always
\* true, so the reason is only returned where the code tests the content.
ForceEnd(how, a, reason) ==
  /\ cleanupPending' = TRUE
  /\ tail' = "assistant"
  /\ Return(how, a.content, reason)

\* A prompt typed at the terminal, or the queued text of one (k = 1), or a
\* Markdown command of k segments: all but the first are left pending.
Request(k) ==
  /\ pc = "idle" /\ ~exitReq /\ requests + k <= MaxRequests
  /\ requests' = requests + k
  /\ interrupted' = FALSE
  /\ segs' = IF k > 1 THEN Append(segs, k - 1) ELSE segs
  /\ BeginTurn(<<>>)
  /\ UNCHANGED <<reply, cleanupPending, exitReq, steerVars, sent>>

\* The run loop ends, at the end of the input or on an exit request, and
\* leaves through _exit(), which closes the turn.
Exit ==
  /\ pc = "idle"
  /\ pc' = "exited"
  /\ tail' = "assistant"
  /\ UNCHANGED <<frames, reply, turnActive, answerVars, streakVars, flagVars,
                 steerVars, boundVars, cleanupPending, forceEnd, segs, task>>

-----------------------------------------------------------------------------
(* One iteration                                                           *)

\* Mutant: only the first Ctrl+C is looked for.
OnlyInterrupted == interrupted

EndRequested == exitReq \/ interrupted

\* The first lifecycle check, and the drain of the control queue.
CheckAndDrain ==
  /\ pc = "check"
  /\ \/ /\ EndRequested
        /\ ForceEnd("interrupted", ans, FALSE)
        /\ UNCHANGED <<queue, cmds>>
     \/ /\ ~EndRequested
        /\ cmds' = queue
        /\ queue' = <<>>
        /\ pc' = "dispatch"
        /\ UNCHANGED <<frames, reply, turnActive, tail, cleanupPending>>
  /\ UNCHANGED <<answerVars, streakVars, flagVars, boundVars, steer, forceEnd,
                 segs, task>>

\* One drained command goes to its handler.
Dispatch ==
  /\ pc = "dispatch" /\ cmds # <<>>
  /\ LET c == Head(cmds).type
     IN  /\ tail' = IF c \in {"inject", "summarise", "redirect"} THEN "user" ELSE tail
         /\ forceEnd' = (forceEnd \/ c \in {"stop", "summarise"})
         /\ exitReq' = (exitReq \/ c = "exit")
         /\ warnings' = IF c = "redirect" THEN 0 ELSE warnings
         /\ task' = IF c = "redirect" THEN task + 1 ELSE task
  /\ cmds' = Tail(cmds)
  /\ UNCHANGED <<turnVars, answerVars, boundVars, noCode, interrupted, queue,
                 steer, cleanupPending, segs>>

\* The second lifecycle check, the turn count, and on to the LLM call.
StartIteration ==
  /\ pc = "dispatch" /\ cmds = <<>>
  /\ \/ /\ EndRequested
        /\ ForceEnd("interrupted", ans, FALSE)
     \/ /\ ~EndRequested /\ Top.turns + 1 > MaxTurns
        /\ ForceEnd("max_turns", ans, ans.content = Nothing)
     \/ /\ ~EndRequested /\ Top.turns + 1 <= MaxTurns
        /\ frames' = SetTop([Top EXCEPT !.turns = @ + 1, !.counted = FALSE, !.barren = @ + 1,
                                        !.afterStop = IF forceEnd THEN @ + 1 ELSE 0])
        /\ pc' = "call"
        /\ UNCHANGED <<reply, turnActive, tail, cleanupPending>>
  /\ UNCHANGED <<answerVars, streakVars, flagVars, steerVars, boundVars,
                 forceEnd, segs, task>>

\* The LLM replies, with code or without; the reply is stored.  A cleanup
\* that was put off happens here.
Replies(kind) ==
  /\ pc = "call"
  /\ cleanupPending' = FALSE
  /\ tail' = "assistant"
  /\ pc' = kind
  /\ UNCHANGED <<frames, reply, turnActive, answerVars, streakVars, flagVars,
                 steerVars, boundVars, forceEnd, segs, task>>

\* An exception in the iteration: counted once, then the next iteration, or
\* the forced end at the limit.  pending is what the cleanup flag was left at.
Failed(f) == [f EXCEPT !.errors = @ + 1, !.counted = TRUE]

FailedOnce(f) == IF f.counted THEN f ELSE Failed(f)

IterationFails(a, pending) ==
  LET f == FailedOnce(Top)
  IN IF f.errors >= MaxErrors
     THEN ForceEnd("errors", a, FALSE)
     ELSE /\ frames' = SetTop(f)
          /\ tail' = "user"
          /\ pc' = "check"
          /\ cleanupPending' = pending
          /\ UNCHANGED <<reply, turnActive>>

\* The call raises: a stream cut at max_tokens (the partial reply and one
\* feedback message are stored), or any other error after the retries (an
\* error message is appended unless the context already ends with a user).
CallFails ==
  /\ pc = "call"
  /\ IterationFails(ans, cleanupPending)
  /\ UNCHANGED <<answerVars, streakVars, flagVars, steerVars, boundVars,
                 forceEnd, segs, task>>

-----------------------------------------------------------------------------
(* Running the code of the reply                                           *)

\* Outcomes of execute_blocks: success with or without output, a Python
\* error or timeout, a failed bash block or magic, an exception of its own.
Outcomes == {"output", "silent", "python_error", "bash_error", "raised"}
Failures == {"python_error", "bash_error", "raised"}

\* What the model's code may leave in namespace["answer"]: the content it
\* found, a new one, or none (the kernel puts a deleted dict back empty).
AnswerAfterCode ==
  [content : {ns.content}, ready : BOOLEAN, text : {ns.text}]
    \cup [content : {task}, ready : BOOLEAN, text : BOOLEAN]
    \cup [content : {Nothing}, ready : BOOLEAN, text : {TRUE}]

\* REPLManager.execute_blocks copies the answer out of the result, which
\* carries it after a success or a Python failure (then as a string), and
\* never lowers ready.
Sync(outcome, n) ==
  IF outcome \in {"bash_error", "raised"} \/ (~n.ready /\ n.content = Nothing)
  THEN ans
  ELSE [content |-> n.content, ready |-> ans.ready \/ n.ready,
        text |-> n.text \/ outcome = "python_error"]

\* Mutant: output clears the turn count along with the error count.
AfterRunAfresh(f, outcome) ==
  IF outcome \in Failures
  THEN [Failed(f) EXCEPT !.prose = 0]
  ELSE [f EXCEPT !.turns = 0, !.errors = 0, !.barren = 1, !.prose = 0]

\* Output, and only output, clears the error count.
AfterRun(f, outcome) ==
  IF outcome \in Failures
  THEN [Failed(f) EXCEPT !.prose = 0]
  ELSE IF outcome = "output"
  THEN [f EXCEPT !.errors = 0, !.barren = 1, !.prose = 0]
  ELSE [f EXCEPT !.prose = 0]

\* The reply has code: warn about loops, execute, sync, count errors.
RunCode(outcome) ==
  /\ pc = "run"
  /\ noCode' = 0
  /\ \E w \in {0, 1} : warnings' = warnings + w
  /\ \E n \in AnswerAfterCode : ns' = n /\ ans' = Sync(outcome, n)
  /\ LET f == AfterRun(Top, outcome)
     IN IF f.errors >= MaxErrors
        THEN ForceEnd("errors", ans', FALSE)
        ELSE /\ frames' = SetTop(f)
             /\ pc' = "feedback"
             /\ UNCHANGED <<reply, turnActive, tail, cleanupPending>>
  /\ UNCHANGED <<flagVars, steerVars, boundVars, forceEnd, segs, task>>

\* The reply has no code: a warning, and the forced end after too many.
NoCode ==
  /\ pc = "prose"
  /\ noCode' = noCode + 1
  /\ IF noCode' >= NoCodeForce
     THEN ForceEnd("no_code", ans, FALSE)
     ELSE /\ frames' = SetTop([Top EXCEPT !.prose = @ + 1])
          /\ pc' = "feedback"
          /\ UNCHANGED <<reply, turnActive, tail, cleanupPending>>
  /\ UNCHANGED <<answerVars, flagVars, steerVars, boundVars, warnings,
                 forceEnd, segs, task>>

-----------------------------------------------------------------------------
(* Feedback and the exit gate                                              *)

\* validate_eot: ready is withdrawn, in the manager and in the kernel, when
\* the reply had several blocks or the answer has no content.
Rejects(multi) == ans.ready /\ (multi \/ ans.content = Nothing)
AfterEOT(a, multi) == IF Rejects(multi) THEN [a EXCEPT !.ready = FALSE] ELSE a

\* Mutant: the gate looks at the snapshot taken before the validation.
StaleGate(multi) == ans.ready

\* The gate looks at the answer fetched again after the validation.
Gate(multi) == AfterEOT(ans, multi).ready

\* build_synthetic_feedback always appends ONE message.
FeedbackMessage == tail' = "user"

\* Taking a segment off the top list, and the list away with its last one.
PopSegment(s) ==
  IF s[Len(s)] = 1 THEN SubSeq(s, 1, Len(s) - 1) ELSE [s EXCEPT ![Len(s)] = @ - 1]

\* The exit gate takes the next pending segment off the top list and has it
\* processed: as a turn nested in this one, or, when an interrupt is
\* pending, not at all.  Then this activation goes on with its loop.
NextSegment(a, n, total) ==
  /\ segs' = PopSegment(segs)
  /\ \/ /\ ~interrupted
        /\ BeginTurn(frames)
     \/ /\ interrupted
        /\ tail' = "assistant" /\ pc' = "check"
        /\ frames' = SetTop(Resume(Top))
        /\ ans' = a /\ ns' = n
        /\ UNCHANGED <<turnActive, forceEnd, noCode, task>>
        /\ warnings' = total
  /\ UNCHANGED reply

\* Stagnation warning, end-of-turn validation, escalation, ONE feedback
\* message, then the forced end of a loop, the exit gate or the next
\* iteration.  The message of the forced end quotes answer.content[:200],
\* which raises when the content is a number or a dict, after the cleanup was
\* put off and before the turn is closed.
Feedback(multi, stagnant) ==
  LET a     == AfterEOT(ans, multi)
      n     == AfterEOT(ns, multi)
      total == IF stagnant THEN warnings + 1 ELSE warnings
  IN /\ pc = "feedback"
     /\ stagnant => ans.content # Nothing
     /\ \/ /\ total >= ForceWarnings
           /\ ans' = a /\ ns' = n /\ warnings' = total
           /\ \/ a.text /\ ForceEnd("loop", a, FALSE)
              \/ ~a.text /\ IterationFails(a, TRUE)
           /\ UNCHANGED <<noCode, segs, forceEnd, task>>
        \/ /\ total < ForceWarnings /\ Gate(multi)
           /\ cleanupPending' = TRUE
           /\ \/ segs # <<>> /\ NextSegment(a, n, total)
              \/ /\ segs = <<>>
                 /\ ans' = a /\ ns' = n /\ warnings' = total
                 /\ tail' = "assistant"
                 /\ Return("answer", a.content, FALSE)
                 /\ UNCHANGED <<segs, forceEnd, noCode, task>>
        \/ /\ total < ForceWarnings /\ ~Gate(multi)
           /\ ans' = a /\ ns' = n /\ warnings' = total
           /\ FeedbackMessage /\ pc' = "check"
           /\ UNCHANGED <<frames, reply, turnActive, cleanupPending, noCode,
                          segs, forceEnd, task>>
     /\ UNCHANGED <<flagVars, steerVars, boundVars>>

-----------------------------------------------------------------------------
(* The input thread and the SIGINT handler                                 *)

\* _route_steering reads _turn_active.  When it is false the line becomes
\* ordinary input, which Request covers; a controller that holds the queue
\* itself (the commands "summarise" and "exit") does not look at all.
SteerRead(c) ==
  /\ pc # "exited" /\ steer = Waiting /\ sent < MaxSent
  /\ turnActive \/ c \in {"summarise", "exit"}
  /\ steer' = [type |-> c, turn |-> requests]
  /\ sent' = sent + 1
  /\ UNCHANGED <<turnVars, answerVars, streakVars, flagVars, queue, cmds,
                 requests, tail, cleanupPending, forceEnd, segs, task>>

\* Then it puts the command on the queue, or drops it when that is full.
SteerSend ==
  /\ pc # "exited" /\ steer # Waiting
  /\ queue' = IF Len(queue) < QueueCap THEN Append(queue, steer) ELSE queue
  /\ steer' = Waiting
  /\ UNCHANGED <<turnVars, answerVars, streakVars, flagVars, boundVars, cmds,
                 tail, cleanupPending, forceEnd, segs, task>>

\* Ctrl+C: the first one asks the turn to stop, the next one, or any after
\* an exit request, raises SystemExit where the main thread stands.
Interrupt ==
  /\ pc # "exited"
  /\ \/ /\ ~exitReq /\ ~interrupted
        /\ interrupted' = TRUE
        /\ UNCHANGED <<pc, exitReq>>
     \/ /\ exitReq \/ interrupted
        /\ exitReq' = TRUE
        /\ pc' = "exited"
        /\ UNCHANGED interrupted
  /\ UNCHANGED <<frames, reply, turnActive, answerVars, streakVars, steerVars,
                 boundVars, tail, cleanupPending, forceEnd, segs, task>>

-----------------------------------------------------------------------------
\* The steps of the main thread inside a turn.
LoopStep ==
  \/ CheckAndDrain
  \/ Dispatch
  \/ StartIteration
  \/ \E kind \in {"run", "prose"} : Replies(kind)
  \/ CallFails
  \/ \E outcome \in Outcomes : RunCode(outcome)
  \/ NoCode
  \/ \E multi, stagnant \in BOOLEAN : Feedback(multi, stagnant)

Next ==
  \/ \E k \in 1..MaxSegments : Request(k)
  \/ Exit
  \/ LoopStep
  \/ \E c \in Commands : SteerRead(c)
  \/ SteerSend
  \/ Interrupt

Spec == Init /\ [][Next]_vars

\* The main thread goes on: an LLM call has timeouts and a bounded number
\* of retries, a block of code is stopped by its timer.  Nothing obliges
\* anybody to type, to steer or to press Ctrl+C.
FairSpec == Spec /\ WF_vars(LoopStep)

-----------------------------------------------------------------------------
(* What the loop gets right                                                *)

\* A step that ends an activation of the loop.
Ends == Len(frames') < Len(frames)

\* Between turns the context ends with an assistant message, whatever ended
\* the last turn: close_turn is called on each of the exits of run_rlm_loop,
\* and invoke() may append the next request.
TurnClosed == pc = "idle" /\ requests > 0 => tail = "assistant"

\* The LLM is never called on a context that ends with anything but a user
\* message, whatever failed, was injected or was redirected before.
CallEndsWithUser == pc = "call" => tail = "user"

\* A ready answer is acted upon in the iteration that set it: no iteration
\* starts with one, except in an activation a nested segment ran in, and
\* after an answer that is not a string broke the forced end of a loop.
ReadyFresh ==
  pc \in {"check", "dispatch", "call", "run", "prose"} /\ ans.ready
    => Top.resumed \/ ~ans.text

\* The answer in force during a turn was written during that turn: neither
\* the manager nor the kernel's namespace, which outlives the turn, brings
\* the content of an earlier one back.
NoStaleAnswer ==
  Busy => \A a \in {ans, ns} : a.content # Nothing => a.content >= frames[1].base

\* A turn that ends as answered ends with content, and with the kernel's own
\* flag still up: the gate does not act on a rejected or withdrawn answer.
ExitGateSound ==
  [][Ends /\ reply'.how = "answer"
       => reply'.content # Nothing /\ ans'.ready /\ reply'.content = ans'.content]_vars

\* Errors are charged to the activation that made them, once per iteration,
\* and output clears them: the count never exceeds the iterations since the
\* code last printed something, and the limit is acted upon at once.
ErrorsOwn ==
  Busy => \A i \in 1..Len(frames) :
            frames[i].errors <= frames[i].barren /\ frames[i].errors < MaxErrors

\* Prose replies are charged to the turn that gave them: the streak is that
\* of the running activation, not a leftover of an earlier turn.
NoCodeOwn == Busy /\ ~Top.resumed => noCode <= Top.prose

\* Once an exit is requested nothing is sent to the LLM or executed.
ExitStopsCalls == pc \in {"call", "run", "prose", "feedback"} => ~exitReq

\* Every turn ends: whatever the LLM and the code do, the agent comes back
\* to the prompt or exits.
TurnTerminates == Busy ~> ~Busy

\* Seen from outside, the loop keeps the contract of a turn.
Contract == INSTANCE TurnContract WITH
  phase <- IF pc = "idle" THEN "idle" ELSE IF pc = "exited" THEN "gone" ELSE "busy"
ImplementsContract == Contract!Spec

-----------------------------------------------------------------------------
(* What its documentation says of it                                       *)

\* agent_input: "stop" - gracefully terminate the current turn.  After the
\* stop was handled at most one more reply (a last one) would be expected.
StopEndsTurn == Busy => Top.afterStop <= 1

\* agent_control: redirect clears the context and stale state and starts a
\* new task: the reply is then about that task.
RedirectStartsAfresh == pc = "idle" => reply.content \in {Nothing, task}

\* run_rlm_loop returns the final answer content or an error message.
ReplySaysSomething ==
  reply.how \in Endings => reply.content # Nothing \/ reply.reason

\* Input protocol: a steering line acts on the turn it was typed in.
SteersItsOwnTurn ==
  pc = "dispatch" => \A i \in 1..Len(cmds) : cmds[i].turn = requests

\* Module docstring of agent_loop: the turn is force-ended when loop
\* escalation is reached.
EscalationEndsTurn ==
  [][pc = "feedback" /\ pc' # "exited" /\ warnings' >= ForceWarnings
       => Ends]_vars
=============================================================================
