------------------------------ MODULE LLMCall ------------------------------
(***************************************************************************)
(* One call of the model: _invoke_llm_with_retry with its attempts, the    *)
(* client below it, whose answers and failures are the environment, and    *)
(* its two callers: call_llm of the turn loop (streaming, on the agent's   *)
(* context) and generate_turn_summary (one answer, on a prompt of its      *)
(* own).  Between calls the loop grows, cleans, compresses and undoes the  *)
(* context, with the token anchor a call has left on it.                   *)
(*                                                                         *)
(* Left out: waits between attempts, thinking switched off after five      *)
(* attempts, logging, the display, what the text says.                     *)
(***************************************************************************)
EXTENDS LLMRecovery, ModelHealth

CONSTANTS
  MaxRetries,   \* LLMCallConfig.max_retries of each job (10; summary 2)
  RedactUpTo,   \* the last attempt whose overflow is met by redaction (2)
  GiveUp,       \* compressions that fail before the call gives up (3)
  MinBytes,     \* min_response_bytes of the streaming call (1)
  MaxTokens,    \* max_tokens: the abort checker's limit on a stream
  Window,       \* max_context_tokens
  Reserve,      \* max_output_tokens
  Requests,     \* the user messages the loop may append
  MaxLength,    \* bound: messages of the context before another is added
  MaxCalls      \* bound: calls

Jobs == {"main", "summary"}

ASSUME CallAssumption ==
  /\ MaxRetries \in [Jobs -> Nat] /\ RedactUpTo \in Nat /\ GiveUp \in Nat \ {0}
  /\ MinBytes \in Nat /\ MaxTokens \in Nat
  /\ Window \in Nat \ {0} /\ Reserve \in Nat
  /\ \A m \in Requests : m \in Message /\ m.role = "user"
  /\ MaxLength \in Nat /\ MaxCalls \in Nat

VARIABLES
  context,   \* agent.context
  anchor,    \* last_exact_context_tokens and last_exact_msg_count
  pending,   \* agent._cleanup_pending
  health,    \* the monitor's status
  pc,        \* where the main thread is
  call,      \* the locals of the call in progress
  sent,      \* the list the provider was last sent
  outcome,   \* how the last call ended
  stale,     \* the list was rewritten behind the anchor
  calls      \* calls so far

store == <<context, anchor, pending, stale>>
vars  == <<store, health, pc, call, sent, outcome, calls>>

-----------------------------------------------------------------------------
User(kind, size, images) ==
  [role |-> "user", kind |-> kind, size |-> size, images |-> images, summary |-> FALSE]
Assistant == [role |-> "assistant", kind |-> "plain", size |-> 1, images |-> 0, summary |-> FALSE]
System    == [role |-> "system", kind |-> "plain", size |-> 1, images |-> 0, summary |-> FALSE]

NoCall ==
  [job |-> "none", attempt |-> 0, messages |-> <<>>, compressed |-> FALSE,
   giveUps |-> 0, sanitised |-> FALSE, text |-> 0, fed |-> 0, cleaned |-> FALSE]

\* The list an attempt works on: the agent's context itself until a recovery
\* has put another list in its place.
Working == IF call.job = "main" /\ ~call.compressed THEN context ELSE call.messages

\* cleanup_synthetic, as far as a message list of this model shows it.
Cleanup(messages) ==
  LET kept[i \in 0..Len(messages)] ==
        IF i = 0 THEN <<>>
        ELSE IF messages[i].kind = "inject" THEN kept[i - 1]
        ELSE Append(kept[i - 1], messages[i])
  IN  kept[Len(messages)]

\* What compress_context may return: the list as it was, the list without the
\* messages between a request and a later reply to it, or a rebuilt list.
Rebuilt(messages) ==
  (IF messages # <<>> /\ Head(messages).role = "system" THEN <<Head(messages)>> ELSE <<>>)
    \o <<User("plain", 2, 0)>>
Redactions(messages) ==
  {SubSeq(messages, 1, b[1]) \o SubSeq(messages, b[2], Len(messages)) :
     b \in {p \in (DOMAIN messages) \X (DOMAIN messages) :
              /\ p[1] < p[2] /\ messages[p[2]].role = "assistant"
              /\ {i \in p[1]..p[2] : messages[i].role = "user" /\ messages[i].kind = "plain"}
                   = {p[1]}}}
Compressions(messages) == {messages, Rebuilt(messages)} \cup Redactions(messages)

TypeOK ==
  /\ context \in Seq(Message) /\ sent \in Seq(Message)
  /\ anchor \in [count : Nat, tokens : Nat] \cup {NoAnchor}
  /\ pending \in BOOLEAN /\ stale \in BOOLEAN /\ calls \in 0..MaxCalls
  /\ health \in HealthStatus
  /\ pc \in {"idle", "attempt", "sent", "answered"}
  /\ call.job \in Jobs \cup {"none"} /\ (call.job = "none" <=> pc = "idle")
  /\ call.job # "none" => call.attempt \in 0..MaxRetries[call.job]
  /\ call.messages \in Seq(Message)
  /\ call.giveUps \in 0..(GiveUp - 1) /\ call.text <= call.fed /\ call.fed \in 0..MaxTokens

Init ==
  /\ context = <<System>> /\ anchor = NoAnchor /\ pending = FALSE /\ stale = FALSE
  /\ health = FreshHealth /\ pc = "idle" /\ call = NoCall /\ sent = <<>>
  /\ outcome = "none" /\ calls = 0

-----------------------------------------------------------------------------
(* Between calls                                                           *)

Ready == Last(context).role = "user"

Ask(message) ==
  /\ pc = "idle" /\ ~Ready /\ Len(context) < MaxLength
  /\ context' = Append(context, message)
  /\ UNCHANGED <<anchor, pending, stale, health, pc, call, sent, outcome, calls>>

\* The end of a turn cleans the context or leaves that to the next reply.
CloseTurn(putOff) ==
  /\ pc = "idle" /\ Last(context).role = "assistant" /\ ~pending
  /\ IF putOff
     THEN pending' = TRUE /\ UNCHANGED <<context, stale>>
     ELSE /\ context' = Cleanup(context)
          /\ stale' = (stale \/ context' # context)
          /\ UNCHANGED pending
  /\ UNCHANGED <<anchor, health, pc, call, sent, outcome, calls>>

\* The gate before every call of the loop, then compress_to_target.
Compress(compressed) ==
  LET live == LiveTokens(anchor, context)
  IN  /\ pc = "idle" /\ Ready
      /\ (live + Reserve) * 100 >= Window * 85 /\ live * 2 > Window
      /\ compressed \in Compressions(context) /\ compressed # context
      /\ context' = compressed /\ stale' = TRUE
      /\ UNCHANGED <<anchor, pending, health, pc, call, sent, outcome, calls>>

\* Back to before the last request; the anchor stays.
Undo ==
  LET last == SelectLastInSeq(context, LAMBDA m : m.role = "user" /\ m.kind = "plain")
  IN  /\ pc = "idle" /\ last > 1
      /\ context' = SubSeq(context, 1, last - 1)
      /\ stale' = (stale \/ anchor.count >= last)
      /\ UNCHANGED <<anchor, pending, health, pc, call, sent, outcome, calls>>

\* ContextManager.clear() drops the anchor with the messages.
Clear ==
  /\ pc = "idle" /\ Len(context) > 1
  /\ context' = SubSeq(context, 1, 1) /\ anchor' = NoAnchor
  /\ UNCHANGED <<pending, stale, health, pc, call, sent, outcome, calls>>

BeginCall(job, messages) ==
  /\ pc = "idle" /\ calls < MaxCalls
  /\ pc' = "attempt" /\ calls' = calls + 1
  /\ call' = [NoCall EXCEPT !.job = job, !.messages = messages]
  /\ UNCHANGED <<store, health, sent, outcome>>

CallModel == Ready /\ BeginCall("main", <<>>)

\* A turn is worth a summary when the last request has a reply.
Substantive ==
  LET last == SelectLastInSeq(context, LAMBDA m : m.role = "user" /\ m.kind = "plain")
  IN  last > 0 /\ \E i \in last..Len(context) : context[i].role = "assistant"

Summarise == Substantive /\ BeginCall("summary", <<System, User("plain", 2, 0)>>)

-----------------------------------------------------------------------------
(* The attempts                                                            *)

Return(how) == pc' = "idle" /\ call' = NoCall /\ sent' = <<>> /\ outcome' = how

Raise == Return("raised")

\* Mutant: an attempt whose recovery has put another list in place is free.
FreeRecovery(locals) ==
  IF call.attempt < MaxRetries[call.job]
  THEN /\ pc' = "attempt" /\ sent' = <<>> /\ UNCHANGED outcome
       /\ call' = [locals EXCEPT !.attempt = IF locals.compressed THEN @ ELSE @ + 1,
                     !.text = 0, !.fed = 0]
  ELSE Return("no attempt left")

\* The next turn of the for loop, or the exception behind it.
NextAttempt(locals) ==
  IF call.attempt < MaxRetries[call.job]
  THEN /\ pc' = "attempt" /\ sent' = <<>> /\ UNCHANGED outcome
       /\ call' = [locals EXCEPT !.attempt = @ + 1, !.text = 0, !.fed = 0]
  ELSE Return("no attempt left")

\* The guard prices with the agent's anchor; a summary's call has no agent.
GuardedList ==
  Guarded(IF call.job = "main" THEN anchor ELSE NoAnchor, Prepare(Working), (95 * Window) \div 100)

\* Mutant: the pruned list is kept, and the anchor with it.
PersistKeepsAnchor(guarded) ==
  /\ IF guarded.persist THEN context' = guarded.list ELSE UNCHANGED context
  /\ UNCHANGED anchor

PersistPruned(guarded) ==
  IF guarded.persist
  THEN context' = guarded.list /\ anchor' = NoAnchor
  ELSE UNCHANGED <<context, anchor>>

Attempt(elapsed) ==
  LET guarded == GuardedList
  IN  /\ pc = "attempt"
      /\ health' = Asked(health, elapsed)
      /\ PersistPruned(guarded)
      /\ IF guarded.sends
         THEN sent' = guarded.list /\ pc' = "sent" /\ UNCHANGED <<call, outcome>>
         ELSE Raise
      /\ UNCHANGED <<pending, stale, calls>>

-----------------------------------------------------------------------------
(* What comes back.  A connection may fail before the first chunk of a     *)
(* stream or after it; a status code comes instead of the stream.          *)

\* A timeout, a 5xx, a 429 or a connection that failed are met alike; a whole
\* answer without choices, content or finish reason waits less.
Transients == {"transport", "empty"}

\* EmptyModelResponse is raised for whole answers only.
MayFail(kind) ==
  /\ pc = "sent"
  /\ kind = "empty" => call.job = "summary"
  /\ call.fed > 0 => kind = "transport"

Transient(kind) ==
  /\ MayFail(kind)
  /\ health' = RecordFailure(health)
  /\ IF call.attempt >= MaxRetries[call.job] THEN Raise ELSE NextAttempt(call)
  /\ UNCHANGED <<store, calls>>

\* A bad request that is none of the three below, 401, invalid JSON, ...
Fatal ==
  /\ pc = "sent"
  /\ Raise
  /\ UNCHANGED <<store, health, calls>>

Recover(messages) == [call EXCEPT !.messages = messages, !.compressed = TRUE, !.giveUps = 0]

\* The first attempts redact, the later ones compress.
OverflowRedacted ==
  /\ call.attempt <= RedactUpTo /\ \E i \in DOMAIN Working : Oversized(Working, Working[i])
  /\ NextAttempt(Recover(Redacted(Working)))

OverflowCompressed(compressed) ==
  /\ call.attempt > RedactUpTo /\ call.job = "main" /\ compressed \in Compressions(Working)
  /\ NextAttempt(Recover(compressed))

OverflowUnrecovered ==
  IF call.attempt <= RedactUpTo
  THEN /\ \A i \in DOMAIN Working : ~Oversized(Working, Working[i])
       /\ NextAttempt(call)
  ELSE IF call.giveUps = GiveUp - 1 THEN Raise
  ELSE NextAttempt([call EXCEPT !.giveUps = @ + 1])

Overflow ==
  /\ MayFail("overflow")
  /\ IF call.attempt >= MaxRetries[call.job] THEN Raise
     ELSE \/ OverflowRedacted
          \/ \E compressed \in Compressions(Working) : OverflowCompressed(compressed)
          \/ OverflowUnrecovered
  /\ UNCHANGED <<store, health, calls>>

\* The agent strips its last message; failing that the list is stripped.
NoVision ==
  LET seen == WithoutImages(Last(context))
      Stripped(messages) == [call EXCEPT !.messages = messages, !.compressed = TRUE]
  IN  /\ MayFail("vision")
      /\ IF call.job = "main" /\ EndsWithImage(context)
         THEN /\ context' = Append(Front(context), seen)
              /\ NextAttempt(Stripped(context'))
         ELSE /\ UNCHANGED context
              /\ IF \E i \in DOMAIN Working : Working[i].images > 0
                 THEN NextAttempt(Stripped(StripImages(Working)))
                 ELSE Raise
      /\ UNCHANGED <<anchor, pending, stale, health, calls>>

\* Lone surrogates: cleaned once, in place.
Unencodable ==
  /\ MayFail("encoding")
  /\ IF call.sanitised THEN Raise
     ELSE NextAttempt([call EXCEPT !.sanitised = TRUE])
  /\ UNCHANGED <<store, health, calls>>

-----------------------------------------------------------------------------
(* The answer                                                              *)

\* A chunk of the stream, text or reasoning, which the abort checker counts.
Chunk(kind) ==
  /\ pc = "sent" /\ call.job = "main" /\ call.fed < MaxTokens
  /\ call' = [call EXCEPT !.fed = @ + 1, !.text = IF kind = "text" THEN @ + 1 ELSE @]
  /\ UNCHANGED <<store, health, pc, sent, outcome, calls>>

\* One token too many.  An aborted stream is not tried again: the loop puts
\* the part that came, or a text that says so, in the place of the reply.
StreamAborts ==
  /\ pc = "sent" /\ call.job = "main" /\ call.fed = MaxTokens
  /\ Return("aborted")
  /\ context' = Append(context, Assistant)
  /\ UNCHANGED <<anchor, pending, stale, health, calls>>

TooShort ==
  /\ pc = "sent" /\ (call.job = "main" => call.text < MinBytes)
  /\ NextAttempt(call)
  /\ UNCHANGED <<store, health, calls>>

\* Mutant: the list of a recovery is forgotten.
NotSynced == context

\* call_llm: the anchor is set to what the context is now, then the list of
\* a recovery becomes the context, then the cleanup that was put off is done.
Synced == IF call.compressed THEN call.messages ELSE context

\* Some chunk carried the usage, or none did.
StreamEnds(usage) ==
  /\ pc = "sent" /\ call.job = "main" /\ call.text >= MinBytes
  /\ pc' = "answered" /\ outcome' = "ok"
  /\ health' = RecordSuccess(health)
  /\ anchor' = IF usage THEN [count |-> Len(context), tokens |-> Exact(sent)] ELSE NoAnchor
  /\ context' = IF pending THEN Cleanup(Synced) ELSE Synced
  /\ stale' = (call.compressed \/ context' # Synced)
  /\ pending' = FALSE
  /\ call' = [call EXCEPT !.cleaned = pending]
  /\ UNCHANGED <<sent, calls>>

\* The loop appends the reply.
Reply ==
  /\ pc = "answered"
  /\ pc' = "idle" /\ call' = NoCall /\ sent' = <<>>
  /\ context' = Append(context, Assistant)
  /\ UNCHANGED <<anchor, pending, stale, health, outcome, calls>>

\* The summary, if it is good enough, is attached to the last reply.
SummaryEnds(good) ==
  LET last == SelectLastInSeq(context, LAMBDA m : m.role = "assistant")
  IN  /\ pc = "sent" /\ call.job = "summary"
      /\ Return("ok")
      /\ health' = RecordSuccess(health)
      /\ context' = [i \in DOMAIN context |->
           IF good /\ i = last THEN [context[i] EXCEPT !.summary = TRUE] ELSE context[i]]
      /\ UNCHANGED <<anchor, pending, stale, calls>>

Between ==
  \/ \E message \in Requests : Ask(message)
  \/ \E putOff \in BOOLEAN : CloseTurn(putOff)
  \/ \E compressed \in Compressions(context) : Compress(compressed)
  \/ Undo \/ Clear \/ CallModel \/ Summarise

InCall ==
  \/ \E elapsed \in BOOLEAN : Attempt(elapsed)
  \/ \E kind \in Transients : Transient(kind)
  \/ Fatal \/ Overflow \/ NoVision \/ Unencodable
  \/ \E kind \in {"text", "reasoning"} : Chunk(kind)
  \/ StreamAborts \/ TooShort \/ Reply
  \/ \E usage \in BOOLEAN : StreamEnds(usage)
  \/ \E good \in BOOLEAN : SummaryEnds(good)

Next == Between \/ InCall

Spec == Init /\ [][Next]_vars

\* The main thread runs, and the socket's timeout ends every wait for the
\* provider: a call in progress goes on.
FairSpec == Spec /\ WF_vars(InCall)

-----------------------------------------------------------------------------
(* Properties                                                              *)

\* After a successful call the context is the list the model has answered:
\* whatever recovery, pruning and cleanup did on the way, in whatever order,
\* the reply is appended to what it replies to.
SentIsKept ==
  pc = "answered" =>
    Prepare(context) = IF call.cleaned THEN Cleanup(sent) ELSE sent

\* While an anchor is in use and nothing has rewritten the list behind it
\* (a recovery or a compression, a cleanup, an undo), its exact count is that
\* of the messages it stands for.
AnchorPricesPrefix ==
  Anchored(anchor, context) /\ ~stale =>
    anchor.tokens = Exact(SubSeq(context, 1, anchor.count))

\* The breaker: a closed circuit is below its threshold of failures, a half
\* open one below its threshold of successes, and the counters of consecutive
\* outcomes are never both up.
BreakerBounds ==
  /\ health.circuit = "closed" => health.failures < FailureThreshold
  /\ health.circuit = "half_open" => health.successes < SuccessThreshold
  /\ health.failures = 0 \/ health.successes = 0

\* Every call returns or raises: each attempt, also one that recovers, uses
\* up one of the retries.
CallReturns == pc # "idle" ~> pc = "idle"

\* "len(context) here is exactly the prompt's message count."
AnchorCountsPrompt == pc = "answered" /\ anchor # NoAnchor => anchor.count = Len(sent)

\* "exited loop without returning ... This should not happen."
NeverFallsOut == outcome # "no attempt left"

=============================================================================
