---------------------------- MODULE Compression ----------------------------
(***************************************************************************)
(* The compression pipeline: ten steps, each a function of the message     *)
(* list, run in order until the list is small enough.  A turn grows the    *)
(* list; the gate before a call, or an overflow, compresses it.            *)
(*                                                                         *)
(* A message's text is a sequence of atoms of about a thousand characters: *)
(* the number of the request it states, Task for the marker ### CURRENT    *)
(* TASK, Other for anything else.  What the prompts and notes say, and the *)
(* audit records, are left out.                                            *)
(***************************************************************************)
EXTENDS Integers, SequencesExt, Functions

CONSTANTS
  MaxUser,      \* _MAX_USER_CHARS of an oversized user message (10)
  MaxRequest,   \* of the request in a full reset (4)
  MaxItem,      \* MAX_CONTENT_CHARS of an item in a summary (2)
  MaxReplItems, \* outputs a summary keeps of an interaction (10)
  MinBlock,     \* MIN_BLOCK_SIZE
  MinTarget,    \* least target of a compression
  MinTask,      \* what a blind truncation leaves at least
  ImageSize,    \* size of an image block
  Window,       \* max_context_tokens
  Reserve,      \* max_output_tokens
  RequestSizes, Feedbacks,      \* what a turn appends
  MaxLength, MaxRequests, MaxCompressions \* bounds

ASSUME CompressionAssumption ==
  /\ {MaxUser, MaxRequest, MaxItem, MinTarget} \subseteq Nat \ {0}
  /\ {MaxReplItems, MinBlock, MinTask, ImageSize, Window, Reserve} \subseteq Nat
  /\ {MaxLength, MaxRequests, MaxCompressions} \subseteq Nat
  /\ RequestSizes \subseteq Nat \ {0}

VARIABLES
  messages,   \* the list
  step,       \* the step to run next, 0 between compressions
  target,     \* target_size_bytes
  request,    \* number of requests made so far; the last is the current one
  folded,     \* the current request is told by a rebuilt message only
  again,      \* a compression has begun on such a list
  cut,        \* a truncation has cut into the task section
  runs        \* compressions so far

vars == <<messages, step, target, request, folded, again, cut, runs>>

Pipeline ==
  <<"PRUNE_IMAGES", "OVERSIZE_USER_PRUNE", "DROP_REASONING", "COLLAPSE_TURNS_50",
    "REDACT_BLOCKS_50", "COLLAPSE_TURNS_FULL", "REDACT_BLOCKS_FULL", "FULL_RESET",
    "CONVERSATION_SUMMARY", "BLIND_TRUNCATE">>

Task == 0
Other == -1
Atoms == (1..MaxRequests) \cup {Task, Other}
Filler(n) == [i \in 1..n |-> Other]

Message ==
  [role : {"system", "user", "assistant"}, kind : {"plain", "real", "redirect", "repl", "note"},
   text : Seq(Atoms), images : Nat, reasoning : Nat, summary : BOOLEAN]

Said(role, kind, text) ==
  [role |-> role, kind |-> kind, text |-> text, images |-> 0, reasoning |-> 0, summary |-> FALSE]

\* A message without a prefix counts as real.
IsReal(m) == m.role = "user" /\ m.kind = "real"
IsRepl(m) == m.role = "user" /\ m.kind = "repl"

\* Outputs and injected messages are said by a user, and are no request.
ASSUME FeedbackAssumption ==
  \A m \in Feedbacks :
    m \in Message /\ m.role = "user" /\ m.kind \in {"repl", "note"} /\ m.text \in Seq({Other})

-----------------------------------------------------------------------------
(* Sizes, boundary, target                                                 *)

Bytes(m) ==
  1 + Len(m.text) + m.images * ImageSize + m.reasoning + (IF m.summary THEN 1 ELSE 0)

Size(list) ==
  LET sum[n \in 0..Len(list)] == IF n = 0 THEN 0 ELSE sum[n - 1] + Bytes(list[n])
  IN  sum[Len(list)]

AtTarget(list, goal) == goal <= 0 \/ Size(list) <= goal

\* How many messages lie before the one that crosses half of the bytes.
SplitPoint(list) ==
  Cardinality({i \in DOMAIN list : 2 * Size(SubSeq(list, 1, i)) <= Size(list)})

Smaller(a, b) == IF a < b THEN a ELSE b
Larger(a, b) == IF a > b THEN a ELSE b
UpTo(text, n) == SubSeq(text, 1, Smaller(n, Len(text)))

\* The lower of the byte target and of what the token budget asks for; the
\* factor is num / den, tokens -1 when they are not known.
CompressionTarget(bytes, num, den, tokens) ==
  LET byFactor == (bytes * (den - num)) \div den
      budget   == Larger(0, Window - Reserve - (num * Window) \div den)
      byTokens == IF tokens > budget THEN (bytes * budget) \div tokens ELSE byFactor
  IN  Larger(Smaller(byFactor, byTokens), MinTarget)

-----------------------------------------------------------------------------
(* Parts of lists                                                          *)

\* What a list has at the positions of a set.
KeptAt(places, list) ==
  LET kept[n \in 0..Len(list)] ==
        IF n = 0 THEN <<>>
        ELSE IF n \in places THEN Append(kept[n - 1], list[n]) ELSE kept[n - 1]
  IN  kept[Len(list)]

\* The positions of a set, in order.
InOrder(places, list) == KeptAt(places, [i \in DOMAIN list |-> i])

Joined(parts) ==
  LET joined[n \in 0..Len(parts)] == IF n = 0 THEN <<>> ELSE joined[n - 1] \o parts[n]
  IN  joined[Len(parts)]

-----------------------------------------------------------------------------
(* Steps 1 to 3: one message after another until the target is met         *)

\* new takes the place of the messages of order, and the target is looked at
\* after each that looks.
UntilTarget(list, order, new, looks, goal) ==
  LET after[k \in 0..Len(order)] ==
        IF k = 0 THEN list
        ELSE IF k > 1 /\ order[k - 1] \in looks /\ AtTarget(after[k - 1], goal)
             THEN after[k - 1]
             ELSE [after[k - 1] EXCEPT ![order[k]] = new[order[k]]]
  IN  after[Len(order)]

\* All but the last image of a message become a text each.
PruneImages(list, goal) ==
  LET last == Smaller(SplitPoint(list) + 1, Len(list) - 1)
      many == {i \in 1..last : list[i].role = "user" /\ list[i].images > 1}
  IN  UntilTarget(list, Reverse(InOrder(many, list)),
        [i \in DOMAIN list |->
           [list[i] EXCEPT !.images = 1, !.text = @ \o Filler(list[i].images - 1)]],
        DOMAIN list, goal)

\* Cut after MaxUser, and a note; contents of several parts never look.
OversizeUserPrune(list, goal) ==
  UntilTarget(list,
    InOrder({i \in DOMAIN list : list[i].role = "user" /\ Len(list[i].text) > MaxUser}, list),
    [i \in DOMAIN list |-> [list[i] EXCEPT !.text = UpTo(@, MaxUser) \o <<Other>>]],
    {i \in DOMAIN list : list[i].images = 0}, goal)

DropReasoning(list, goal) ==
  UntilTarget(list,
    InOrder({i \in 1..SplitPoint(list) : list[i].role = "assistant" /\ list[i].reasoning > 0}, list),
    [i \in DOMAIN list |-> [list[i] EXCEPT !.reasoning = 0]], DOMAIN list, goal)

-----------------------------------------------------------------------------
(* Steps 4 to 7: turns and blocks                                          *)

\* Mutant: a turn runs on over the next requests.
AnyIn(list, from, to) == TRUE

NoRealIn(list, from, to) == \A i \in from..to : ~IsReal(list[i])
Summarised(m) == m.role = "assistant" /\ m.summary

\* A real request, and the first run of summarised replies before the next.
SummarizedTurns(list, limit) ==
  {turn \in (1..limit) \X (1..limit) :
     \E first \in turn[1] + 1 .. turn[2] :
       /\ IsReal(list[turn[1]]) /\ NoRealIn(list, turn[1] + 1, turn[2])
       /\ \A i \in first..turn[2] : Summarised(list[i])
       /\ \A i \in turn[1] + 1 .. first - 1 : ~Summarised(list[i])
       /\ turn[2] = limit \/ ~Summarised(list[turn[2] + 1])}

\* The request stays, the last reply becomes the summary, the rest goes.
CollapseTurns(list, limit) ==
  LET turns == SummarizedTurns(list, limit)
      kept  == {i \in DOMAIN list : \A turn \in turns : ~(turn[1] < i /\ i < turn[2])}
      ends  == {turn[2] : turn \in turns}
      told  == [Said("assistant", "plain", <<Other>>) EXCEPT !.summary = TRUE]
  IN  IF Len(list) < 3 THEN list
      ELSE KeptAt(kept, [i \in DOMAIN list |-> IF i \in ends THEN told ELSE list[i]])

\* A real request and the last reply before the next real or system message.
Blocks(list, limit) ==
  {block \in (1..limit) \X (1..limit) :
     /\ block[1] + 1 < block[2]
     /\ IsReal(list[block[1]]) /\ list[block[2]].role = "assistant"
     /\ \A i \in block[1] + 1 .. block[2] : ~IsReal(list[i]) /\ list[i].role # "system"
     /\ \A i \in block[2] + 1 .. limit :
          list[i].role = "assistant" =>
            \E j \in block[2] + 1 .. i : IsReal(list[j]) \/ list[j].role = "system"
     /\ Size(SubSeq(list, block[1], block[2])) >= MinBlock}

\* Mutant: the slice behind the block begins one message too late.
RedactedTooFar(list, block) == SubSeq(list, 1, block[1]) \o SubSeq(list, block[2] + 1, Len(list))

Redacted(list, block) == SubSeq(list, 1, block[1]) \o SubSeq(list, block[2], Len(list))

\* The first block, again and again; the boundary moves with the list.
RedactFirst(list, useBoundary, goal) ==
  LET blocks == Blocks(list, IF useBoundary THEN SplitPoint(list) ELSE Len(list))
  IN  IF AtTarget(list, goal) \/ blocks = {} THEN list
      ELSE Redacted(list, CHOOSE b \in blocks : \A c \in blocks : b[1] <= c[1])

RedactBlocks(list, useBoundary, goal) ==
  LET after[n \in 0..Len(list)] ==
        IF n = 0 THEN list ELSE RedactFirst(after[n - 1], useBoundary, goal)
  IN  after[Len(list)]

-----------------------------------------------------------------------------
(* Steps 8 to 10: the list is rebuilt                                      *)

SystemOf(list) == IF list # <<>> /\ list[1].role = "system" THEN <<list[1]>> ELSE <<>>

Rebuilt(list, text) == SystemOf(list) \o <<Said("user", "real", text)>>

\* The model's summary, its plan and the last real request: what the model
\* fails to write is an empty answer here.
FullReset(list, summary, plan) ==
  LET last == SelectLastInSeq(list, IsReal)
      new  == Rebuilt(list, Filler(summary + plan) \o UpTo(list[last].text, MaxRequest))
  IN  IF last = 0 \/ summary = 0 THEN list
      ELSE IF Size(new) >= Size(list) THEN list ELSE new

\* Interactions begin at user messages that are not outputs of the REPL.
Begins(m) == m.role = "user" /\ m.kind # "repl"

Shown(m) == IF m.kind = "note" THEN <<Other>> ELSE UpTo(m.text, MaxItem)

\* The replies and the last outputs of the messages from..to.
Told(list, from, to) ==
  LET part    == SubSeq(list, from, to)
      replies == KeptAt({i \in DOMAIN part : part[i].role = "assistant"}, part)
      outputs == KeptAt({i \in DOMAIN part : IsRepl(part[i])}, part)
      latest  == SubSeq(outputs, Larger(1, Len(outputs) - MaxReplItems + 1), Len(outputs))
  IN  Joined([i \in DOMAIN replies |-> UpTo(replies[i].text, MaxItem)])
        \o Joined([i \in DOMAIN latest |-> UpTo(latest[i].text, 1)])

\* Mutant: an injected message passes for the task.
TaskOfLatest(list, begin) == Shown(list[begin])

\* What the task section says the user asked for.
TaskOf(list, begin) ==
  LET real == SelectLastInSeq(list, LAMBDA m : Begins(m) /\ m.kind # "note")
  IN  Shown(list[IF list[begin].kind = "note" /\ real > 0 THEN real ELSE begin])

ConversationSummary(list, goal) ==
  LET begins  == InOrder({i \in DOMAIN list : Begins(list[i])}, list)
      current == Last(begins)
      history == Joined([k \in 1..Len(begins) - 1 |->
                   Shown(list[begins[k]]) \o Told(list, begins[k], begins[k + 1] - 1)])
      task    == IF begins = <<>> THEN <<Task>>
                 ELSE <<Task>> \o TaskOf(list, current) \o Told(list, current, Len(list))
  IN  IF AtTarget(list, goal) \/ Len(list) <= 2 THEN list
      ELSE Rebuilt(list, history \o task)

Latest(text, n) == SubSeq(text, Len(text) - n + 1, Len(text))

\* The tail of the history before the task section; then the head is cut off
\* whatever it is, down to MinTask.
BlindTruncate(list, goal) ==
  LET user == SelectInSeq(list, LAMBDA m : m.role = "user")
      text == list[user].text
      room == Larger(MinTask, goal - Size(SystemOf(list)) - 1)
      pos  == SelectLastInSeq(text, LAMBDA atom : atom = Task)
      section == SubSeq(text, pos, Len(text))
      space   == Smaller(room - Len(section) - 1, pos - 1)
      tail == IF space <= 0 THEN section
              ELSE Latest(SubSeq(text, 1, pos - 1), space) \o <<Other>> \o section
      With(t) == [list EXCEPT ![user].text = t]
      excess  == Larger(0, Size(With(tail)) - goal)
      left    == Larger(MinTask, Len(tail) - excess)
  IN  IF user = 0 THEN list
      ELSE IF pos = 0 \/ list[user].images > 0 \/ Len(text) <= room THEN list
      ELSE With(IF Len(tail) > left THEN Latest(tail, left) ELSE tail)

\* What a step makes of the list, given the answers the model would give.
Applied(name, list, goal, summary, plan) ==
  CASE name = "PRUNE_IMAGES"         -> PruneImages(list, goal)
    [] name = "OVERSIZE_USER_PRUNE"  -> OversizeUserPrune(list, goal)
    [] name = "DROP_REASONING"       -> DropReasoning(list, goal)
    [] name = "COLLAPSE_TURNS_50"    -> CollapseTurns(list, SplitPoint(list))
    [] name = "REDACT_BLOCKS_50"     -> RedactBlocks(list, TRUE, goal)
    [] name = "COLLAPSE_TURNS_FULL"  -> CollapseTurns(list, Len(list))
    [] name = "REDACT_BLOCKS_FULL"   -> RedactBlocks(list, FALSE, goal)
    [] name = "FULL_RESET"           -> FullReset(list, summary, plan)
    [] name = "CONVERSATION_SUMMARY" -> ConversationSummary(list, goal)
    [] name = "BLIND_TRUNCATE"       -> BlindTruncate(list, goal)

-----------------------------------------------------------------------------
(* A turn                                                                  *)

Init ==
  /\ messages = <<Said("system", "plain", <<Other>>)>> /\ step = 0 /\ target = 0
  /\ request = 0 /\ folded = FALSE /\ again = FALSE /\ cut = FALSE /\ runs = 0

Idle == step = 0 /\ Len(messages) < MaxLength
Replied == Last(messages).role # "user"

\* A new request; a redirect drops what was there.
Ask(kind, size) ==
  LET text == [i \in 1..size |-> request + 1]
      kept == IF kind = "redirect" THEN SystemOf(messages) ELSE messages
  IN  /\ Idle /\ request < MaxRequests
      /\ kind = "real" => Replied
      /\ messages' = Append(kept, Said("user", kind, text))
      /\ request' = request + 1 /\ folded' = FALSE /\ again' = FALSE /\ cut' = FALSE
      /\ UNCHANGED <<step, target, runs>>

Reply(reasoning) ==
  /\ Idle /\ ~Replied
  /\ messages' = Append(messages, [Said("assistant", "plain", <<Other>>) EXCEPT !.reasoning = reasoning])
  /\ UNCHANGED <<step, target, request, folded, again, cut, runs>>

\* The REPL's output, which may hold images, or an injected message.
Feedback(message) ==
  /\ Idle /\ request > 0 /\ Replied
  /\ messages' = Append(messages, message)
  /\ UNCHANGED <<step, target, request, folded, again, cut, runs>>

\* The summary of a turn hangs on its last reply.
AttachSummary ==
  /\ Idle /\ request > 0 /\ Replied /\ ~Last(messages).summary
  /\ \E i \in DOMAIN messages : IsReal(messages[i])
  /\ messages' = [messages EXCEPT ![Len(messages)].summary = TRUE]
  /\ UNCHANGED <<step, target, request, folded, again, cut, runs>>

Begin(goal) ==
  /\ step = 0 /\ request > 0 /\ ~Replied /\ runs < MaxCompressions
  /\ step' = 1 /\ runs' = runs + 1
  /\ target' = goal
  /\ again' = (again \/ folded)
  /\ UNCHANGED <<messages, request, folded, cut>>

\* The gate before a call: at 85 percent, down to 50.
Gate ==
  LET size == Size(messages)
  IN  /\ (size + Reserve) * 100 >= 85 * Window /\ 2 * size > Window
      /\ Begin(CompressionTarget(size, 2 * size - Window, 2 * size, size))

\* The provider refused the list; its message may tell the tokens.
Overflow(told) ==
  Begin(CompressionTarget(Size(messages), 30, 100, IF told THEN Size(messages) ELSE -1))

\* compress_context: one step, and out when the target is met.
RunStep(summary, plan) ==
  LET name == Pipeline[step]
      new  == Applied(name, messages, target, summary, plan)
  IN  /\ step > 0
      /\ name # "FULL_RESET" => summary = 0 /\ plan = 0
      /\ messages' = new
      /\ IF Size(new) <= target \/ step = Len(Pipeline)
         THEN step' = 0 /\ target' = 0
         ELSE step' = step + 1 /\ UNCHANGED target
      /\ folded' = (folded \/ (new # messages /\ name \in {"FULL_RESET", "CONVERSATION_SUMMARY"}))
      /\ cut' = (cut \/ (name = "BLIND_TRUNCATE" /\ new # messages
                           /\ ~Contains(Last(new).text, Task)))
      /\ UNCHANGED <<request, again, runs>>

Next ==
  \/ \E kind \in {"real", "redirect"}, size \in RequestSizes : Ask(kind, size)
  \/ \E reasoning \in 0..1 : Reply(reasoning)
  \/ \E message \in Feedbacks : Feedback(message)
  \/ AttachSummary \/ Gate
  \/ \E told \in BOOLEAN : Overflow(told)
  \/ \E summary \in {0, 2}, plan \in 0..1 : RunStep(summary, plan)

Spec == Init /\ [][Next]_vars

-----------------------------------------------------------------------------
(* Properties                                                              *)

TypeOK ==
  /\ messages \in Seq(Message) /\ messages # <<>>
  /\ step \in 0..Len(Pipeline) /\ target \in Int
  /\ request \in 0..MaxRequests /\ runs \in Nat
  /\ {folded, again, cut} \subseteq BOOLEAN

Carried(list) ==
  {n \in 1..MaxRequests : \E i \in DOMAIN list : Contains(list[i].text, n)}

\* A compression runs in the middle of a call and its result is sent as it
\* is: whatever a step removes, no two messages of one role stand side by side
\* and after it the list ends with the user message to be answered.
Sendable ==
  /\ \A i \in 1..Len(messages) - 1 : messages[i].role # messages[i + 1].role
  /\ step > 0 => Last(messages).role = "user"

\* Whatever steps it takes, the first compression of a turn keeps the request
\* being worked on, unless the last resort cuts into the task section itself.
RequestKept == request > 0 /\ ~again /\ ~cut => request \in Carried(messages)

\* The steps that drop reasoning, turns and blocks lose no request of any
\* turn, and leave the message to be answered as it was.
StepsKeepRequests ==
  [][3 <= step /\ step <= 7 => /\ Carried(messages) \subseteq Carried(messages')
                                /\ Last(messages') = Last(messages)]_vars

\* "Replaces the entire context with a compact summary + plan + current user
\* request": the current request is never compressed away.
RequestSurvives == request > 0 /\ ~cut => request \in Carried(messages)

=============================================================================
