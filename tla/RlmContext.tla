----------------------------- MODULE RlmContext -----------------------------
(***************************************************************************)
(* The conversation under the turn loop: the message list TauContext keeps *)
(* while RlmLoop runs, with the steering messages and their bridges, the   *)
(* synthetic messages, the cleanup that is put off to the first reply of   *)
(* the next turn, and the repairs close_turn makes.  Every action is the   *)
(* action of RlmLoop with what it does to the list, so the module refines  *)
(* RlmLoop by construction; TailFaithful says that RlmLoop's one-word view *)
(* of the list is the right one.  Compression is not modelled here.        *)
(***************************************************************************)
EXTENDS RlmLoop, SequencesExt

VARIABLE ctx   \* the context: a sequence of message kinds

cvars == <<vars, ctx>>

(* A message is known by what put it there.  User messages: "real" and     *)
(* "redirect" requests, "repl" feedback, and those whose prefix marks them *)
(* synthetic: "inject", "meta", "boundary" and "error" (a [REPL error]).   *)
(* Assistant messages: "reply", "bridge", and "final" for the one          *)
(* close_turn appends, the answer or the reason of a forced end.           *)
AssistantKinds == {"reply", "bridge", "final"}
SyntheticKinds == {"inject", "meta", "boundary", "error"}
UserKinds      == {"real", "redirect", "repl"} \cup SyntheticKinds
Kinds          == {"system"} \cup UserKinds \cup AssistantKinds

Role(m) == IF m \in UserKinds THEN "user"
           ELSE IF m \in AssistantKinds THEN "assistant" ELSE "system"
LastRole(c) == Role(Last(c))

-----------------------------------------------------------------------------
(* The operations of TauContext                                            *)

\* Mutant: the synthetic user message without its bridge.
Unbridged(c, m) == Append(c, m)

\* append_synthetic_user_with_bridge.
Bridged(c, m) ==
  IF LastRole(c) = "user" THEN c \o <<"bridge", m>> ELSE Append(c, m)

\* cleanup_synthetic: the synthetic messages go, and with a [REPL error] the
\* assistant message right before it.  Nothing is merged.
Removed(c, i) ==
  \/ c[i] \in SyntheticKinds
  \/ /\ c[i] \in AssistantKinds /\ i < Len(c) /\ c[i + 1] = "error"

Cleanup(c) ==
  LET kept[i \in 0..Len(c)] ==
        IF i = 0 THEN <<>>
        ELSE IF Removed(c, i) THEN kept[i - 1] ELSE Append(kept[i - 1], c[i])
  IN  kept[Len(c)]

\* Merging m into the last message of c: the prefix of the first one stays,
\* and a merged text still holds a final answer either of them held.
MergeLast(c, m) ==
  IF m = "final" THEN [c EXCEPT ![Len(c)] = "final"] ELSE c

\* merge_consecutive_assistants: neighbours of one role become one message.
Joined(done, m) ==
  IF done # <<>> /\ LastRole(done) = Role(m) /\ Role(m) # "system"
  THEN MergeLast(done, m)
  ELSE Append(done, m)

Merge(c) ==
  LET done[i \in 0..Len(c)] == IF i = 0 THEN <<>> ELSE Joined(done[i - 1], c[i])
  IN  done[Len(c)]

\* A user message between the system prompt and a first assistant message.
Bounded(c) ==
  IF Len(c) >= 2 /\ Role(c[1]) = "system" /\ Role(c[2]) = "assistant"
  THEN <<c[1], "boundary">> \o Tail(c) ELSE c

\* Mutant: nothing merged before the turn is closed.
CloseUnmerged(c) == IF LastRole(c) = "assistant" THEN c ELSE Append(c, "final")

\* close_turn(..., skip_cleanup=True).
Close(c) ==
  LET b == Bounded(Merge(c))
  IN  CASE LastRole(b) = "assistant" -> b
        [] LastRole(b) = "user"      -> Append(b, "final")
        [] LastRole(b) = "system"    -> b \o <<"meta", "final">>

\* Mutant: the context is cleared and the new task never appended.
ClearOnly(c) == <<"system">>

\* Redirection: clear() keeps the system prompt, append_user the new task.
Redirected(c) == <<"system", "redirect">>

-----------------------------------------------------------------------------
(* The actions of RlmLoop, with what they do to the list                   *)

CloseIfEnds(c) == IF Ends THEN Close(c) ELSE c

CRequest(k) == Request(k) /\ ctx' = Append(ctx, "real")
CExit == Exit /\ ctx' = Close(Cleanup(ctx))
CCheckAndDrain == CheckAndDrain /\ ctx' = CloseIfEnds(ctx)

CDispatch ==
  /\ Dispatch
  /\ LET c == Head(cmds).type
     IN  ctx' = CASE c \in {"inject", "summarise"} -> Bridged(ctx, "inject")
                  [] c = "redirect"                -> Redirected(ctx)
                  [] OTHER                         -> ctx

CStartIteration == StartIteration /\ ctx' = CloseIfEnds(ctx)

CReplies(kind) ==
  /\ Replies(kind)
  /\ ctx' = Append(IF cleanupPending THEN Cleanup(ctx) ELSE ctx, "reply")

\* A stream cut short keeps its partial reply; another error is recorded
\* only where it would not follow a user message.
Aborted(c) == c \o <<"reply", "repl">>
Errored(c) == IF LastRole(c) = "user" THEN c ELSE Append(c, "error")

CCallFails ==
  /\ CallFails
  /\ \E c \in {Aborted(ctx), Errored(ctx)} : ctx' = CloseIfEnds(c)

CRunCode(outcome) == RunCode(outcome) /\ ctx' = CloseIfEnds(ctx)
CNoCode == NoCode /\ ctx' = CloseIfEnds(ctx)

\* The feedback; then the gate closes the turn, and a segment that is
\* processed begins the next one in the same list.
CFeedback(multi, stagnant) ==
  /\ Feedback(multi, stagnant)
  /\ LET c == Append(ctx, "repl")
     IN  ctx' = CASE Ends -> Close(c)
                  [] Len(frames') > Len(frames) -> Append(Close(c), "real")
                  [] Len(frames') = Len(frames) /\ segs' # segs -> Close(c)
                  [] OTHER -> c

CInit == Init /\ ctx = <<"system">>

CLoopStep ==
  \/ CCheckAndDrain
  \/ CDispatch
  \/ CStartIteration
  \/ \E kind \in {"run", "prose"} : CReplies(kind)
  \/ CCallFails
  \/ \E outcome \in Outcomes : CRunCode(outcome)
  \/ CNoCode
  \/ \E multi, stagnant \in BOOLEAN : CFeedback(multi, stagnant)

CNext ==
  \/ \E k \in 1..MaxSegments : CRequest(k)
  \/ CExit
  \/ CLoopStep
  \/ \E c \in Commands : SteerRead(c) /\ UNCHANGED ctx
  \/ SteerSend /\ UNCHANGED ctx
  \/ Interrupt /\ UNCHANGED ctx

CSpec == CInit /\ [][CNext]_cvars

-----------------------------------------------------------------------------
(* Properties                                                              *)

\* RlmLoop keeps of the list the role of its last message, and every guard
\* of the loop that reads the list reads no more than that.
TailFaithful == tail = LastRole(ctx)

\* What the model is called on ends with a user message, whatever steering, the
\* cleanup and failed calls did to the list, except in an activation that goes
\* on after a nested segment (run_rlm_loop, "the loop guarantees alternation").
CallsOnUser == pc = "call" /\ ~Top.resumed => LastRole(ctx) = "user"

\* Neighbours whose roles differ, from the first user message on.
Alternates(c) ==
  \A i \in 1..Len(c) - 1 :
    Role(c[i + 1]) = IF Role(c[i]) = "user" THEN "assistant" ELSE "user"

\* Two user messages never stand side by side, at any moment: not after a
\* burst of injections, a redirect, a failed call or a cleanup.
NoAdjacentUsers ==
  \A i \in 1..Len(ctx) - 1 : ~(Role(ctx[i]) = "user" /\ Role(ctx[i + 1]) = "user")

\* A closed turn leaves a strictly alternating conversation, whatever the
\* cleanup took out of its middle: close_turn merges and inserts the boundary.
ClosedTurnAlternates == pc = "idle" => Alternates(ctx) \/ ctx = <<"system">>

\* DECISIONS 27.1: strict alternation, no exceptions: what an LLM call sends.
AlternatesAtCall == pc = "call" => Alternates(ctx)
=============================================================================
