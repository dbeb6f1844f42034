------------------------------- MODULE Reply -------------------------------
(***************************************************************************)
(* The way of one reply from the model to the context and the REPL         *)
(* (agent_loop.py): the ladder repairs it, an ambiguous one goes to the    *)
(* segmenter for some attempts, the result is stored and its blocks run.   *)
(* A reply whose stream was cut at the token limit is repaired by the      *)
(* ladder alone, stored and not run.                                       *)
(***************************************************************************)
EXTENDS FenceSegmenter

CONSTANTS Alphabet,    \* the lines a model may write
          MaxReply,    \* bound on the lines of a reply
          MaxLines,    \* MAX_LINES: longer texts are not put to the segmenter
          MaxRetries   \* DEFAULT_MAX_RETRIES

ASSUME ReplyAssumption == /\ Alphabet \subseteq Line
                          /\ MaxReply \in Nat \ {0}
                          /\ MaxLines \in Nat
                          /\ MaxRetries \in Nat

VARIABLES reply,    \* what the model wrote
          phase,    \* writing, doubtful, decided or stored
          text,     \* what has become of it
          verdict,  \* the verdict on text
          steps,    \* the repair steps reported to the model
          tries,    \* answers of the segmenter that failed
          ran       \* the blocks handed to the REPL

replyVars == <<reply, phase, text, verdict, steps, tries, ran>>

ReplyInit ==
  /\ reply = <<>> /\ phase = "writing"
  /\ text = <<>> /\ verdict = "clean" /\ steps = {}
  /\ tries = 0 /\ ran = <<>>

Write(line) == /\ phase = "writing" /\ Len(reply) < MaxReply
               /\ reply' = Append(reply, line)
               /\ UNCHANGED <<phase, text, verdict, steps, tries, ran>>

Repaired(by) == /\ text' = by.text
                /\ verdict' = by.verdict
                /\ steps' = by.steps

\* call_llm has returned: the ladder runs, and the segmenter if it is in doubt.
Ladders == /\ phase = "writing" /\ reply # <<>>
           /\ Repaired(RepairResponse(reply))
           /\ phase' = IF verdict' = "ambiguous" THEN "doubtful" ELSE "decided"
           /\ UNCHANGED <<reply, tries, ran>>

\* The stream was aborted with partial content: it is marked, repaired, stored.
Aborts == /\ phase = "writing" /\ Len(reply) < MaxReply
          /\ \E i \in DOMAIN reply : ~IsBlank(reply[i])
          /\ reply' = reply \o <<Blank, Text("prose")>>
          /\ Repaired(RepairResponse(reply'))
          /\ phase' = "stored"
          /\ UNCHANGED <<tries, ran>>

GivesUp == /\ phase' = "decided"
           /\ steps' = steps \cup {"llm-repair-failed"}
           /\ UNCHANGED <<reply, text, verdict, tries, ran>>

\* The size guard.
TooLarge == /\ phase = "doubtful" /\ Len(text) > MaxLines
            /\ GivesUp

Asking == phase = "doubtful" /\ Len(text) <= MaxLines

TransportFails == Asking /\ GivesUp

\* An answer that cannot be parsed, or whose partition a gate refuses.
Retry == /\ tries' = tries + 1
         /\ IF tries = MaxRetries
            THEN /\ phase' = "decided"
                 /\ steps' = steps \cup {"llm-repair-failed"}
            ELSE UNCHANGED <<phase, steps>>
         /\ UNCHANGED <<reply, text, verdict, ran>>

Malformed == Asking /\ Retry

\* Lessons that stay true after the segmenter has succeeded.
Kept == {"other-style-enclosed", "half-open-other-style",
         "protocol-envelope-stripped", "protocol-tags", "glue-opener-split"}

Outcome(came) ==
    \/ came.outcome = "retry" /\ Retry
    \/ /\ came.outcome = "prose"
       /\ phase' = "decided"
       /\ UNCHANGED <<reply, text, verdict, steps, tries, ran>>
    \/ /\ came.outcome = "applied"
       /\ phase' = "decided"
       /\ text' = came.text
       /\ verdict' = "ok"
       /\ steps' = {"llm-repair-applied"} \cup (steps \cap Kept)
       /\ UNCHANGED <<reply, tries, ran>>

Answers(answer) == Asking /\ Outcome(Answered(answer, text))

\* append_assistant, then extract_code: the context and the REPL see one text.
Store == /\ phase = "decided"
         /\ phase' = "stored"
         /\ ran' = ExtractCodeBlocks(text)
         /\ UNCHANGED <<reply, text, verdict, steps, tries>>

\* The answers of the segmenter: a label for every line, equal neighbours being
\* one range and "gap" leaving a line out.  Any other answer fails G1, as a
\* malformed one does.
Labels == {"prose", "python", "bash", "drop", "gap"}

Ranges(label) ==
    LET Ends(i) == i = Len(label) \/ label[i + 1] # label[i]
        From(i) == Min({j \in 1 .. i : \A m \in j .. i : label[m] = label[i]})
        Piece(i) == IF label[i] \in {"python", "bash"}
                    THEN Segment("code", From(i), i + 1, label[i])
                    ELSE Segment(label[i], From(i), i + 1, "none")
    IN  FlattenSeq([i \in DOMAIN label |->
            IF Ends(i) /\ label[i] # "gap" THEN <<Piece(i)>> ELSE <<>>])

SomeAnswer == \E label \in [1 .. Len(text) -> Labels] : Answers(Ranges(label))

\* The next turn, with a new reply.
NextTurn == /\ phase = "stored"
            /\ reply' = <<>> /\ phase' = "writing"
            /\ text' = <<>> /\ verdict' = "clean" /\ steps' = {}
            /\ tries' = 0 /\ ran' = <<>>

ReplyNext ==
  \/ \E line \in Alphabet : Write(line)
  \/ Ladders \/ Aborts
  \/ TooLarge \/ TransportFails \/ Malformed \/ SomeAnswer
  \/ Store \/ NextTurn

ReplySpec == ReplyInit /\ [][ReplyNext]_replyVars
-----------------------------------------------------------------------------
\* The lines that say something: text, and the code of a glued line.
Says(l) ==
    LET said == IF l.kind = "bare" THEN l.rest ELSE l
    IN  IF said.kind = "text" /\ ~IsBlank(said) THEN <<said>> ELSE <<>>

Content(lines) == FlattenSeq([i \in DOMAIN lines |-> Says(lines[i])])

(* No repair loses, invents or reorders a line of text: what is stored     *)
(* says, line for line, what the model wrote (agent_fence_repair.py,       *)
(* _render; agent_fence_segmenter.py, "content must never vanish").        *)
ContentKept == phase \in {"doubtful", "decided", "stored"} =>
                   Content(text) = Content(reply)

(* Shell runs only if the reply opened shell itself: neither tier turns    *)
(* prose into shell (agent_fence_segmenter.py, gate_bash_witness).         *)
ShellWasAsked ==
    (\E k \in DOMAIN ran : ran[k].lang = "bash") =>
        \E i \in DOMAIN reply : /\ reply[i].kind \in {"open", "tag", "fused", "bare"}
                                /\ reply[i].lang = "bash"

(* The ladder never stops a complete block from running: every block the   *)
(* extractor reads in the reply itself is still read after the repair,     *)
(* unless a glued opener stands outside them: split, it may open a block   *)
(* around the next one (agent_fence_repair.py, _protected_line_indices,    *)
(* _renders_extractable, strip_envelopes).                                 *)
RunsWhatRan ==
    /\ phase \in {"doubtful", "decided"}
    /\ "llm-repair-applied" \notin steps
    /\ \A i \in DOMAIN reply : reply[i].kind \in {"fused", "bare"} =>
          \E k \in DOMAIN ExtractCodeBlocks(reply) :
              LET b == ExtractCodeBlocks(reply)[k] IN i \in b.first .. b.last
    => LET was == Bodies(ExtractCodeBlocks(reply))
           is == Bodies(ExtractCodeBlocks(text))
       IN  \E drop \in SUBSET DOMAIN is : was = RemoveAll(is, drop)

=============================================================================
