---------------------------- MODULE LLMRecovery ----------------------------
(***************************************************************************)
(* What the call path does to a list of messages before and between        *)
(* attempts: preparation, pricing, the recovery from an overflow and from  *)
(* a model without vision, and the two prunings of the pre-send guard.     *)
(* A message is its role, what its prefix says it is, the size of its      *)
(* text, its number of images and whether a turn summary hangs on it.      *)
(***************************************************************************)
EXTENDS Integers, FiniteSets, SequencesExt, Functions

CONSTANTS
  ImageSize,   \* price of an image block (1120 tokens)
  Overhead,    \* structural overhead the estimate adds (15 tokens)
  Prune        \* _PRE_SEND_PRUNE_CHARS (10000)

ASSUME PriceAssumption == ImageSize \in Nat \ {0} /\ Overhead \in Nat /\ Prune \in Nat

Message ==
  [role : {"system", "user", "assistant"}, kind : {"plain", "repl", "inject"},
   size : Nat, images : Nat, summary : BOOLEAN]

Price(message) == message.size + message.images * ImageSize

\* What the provider counts, and what the program estimates: never less.
Exact(messages) ==
  LET sum[i \in 0..Len(messages)] == IF i = 0 THEN 0 ELSE sum[i - 1] + Price(messages[i])
  IN  sum[Len(messages)]
Estimate(messages) == Exact(messages) + Overhead * Len(messages)

Map(Op(_), messages) == [i \in DOMAIN messages |-> Op(messages[i])]

\* The copy that goes out has only the fields the API knows.
Prepare(messages) == Map(LAMBDA m : [m EXCEPT !.summary = FALSE], messages)

-----------------------------------------------------------------------------
(* The live count: an exact count of the first messages, an estimate of    *)
(* the rest.                                                               *)

NoAnchor == [count |-> -1, tokens |-> 0]

Anchored(anchor, messages) == anchor # NoAnchor /\ anchor.count <= Len(messages)

LiveTokens(anchor, messages) ==
  IF Anchored(anchor, messages)
  THEN anchor.tokens + Estimate(SubSeq(messages, anchor.count + 1, Len(messages)))
  ELSE Estimate(messages)

-----------------------------------------------------------------------------
(* Recovery.  None of these changes the number of messages.                *)

\* A content that is replaced by a text loses its images and its prefix.
Replaced(message) == [message EXCEPT !.kind = "plain", !.size = 1, !.images = 0]

Oversized(messages, m) == Price(m) > Exact(messages) \div 5

Redacted(messages) ==
  Map(LAMBDA m : IF Oversized(messages, m) THEN Replaced(m) ELSE m, messages)

WithoutImages(message) ==
  IF message.images = 0 THEN message
  ELSE IF message.size > 0 THEN [message EXCEPT !.images = 0]
  ELSE Replaced(message)

StripImages(messages) == Map(WithoutImages, messages)

\* The last message is the user's and has images (_recover_from_vision_error).
EndsWithImage(messages) ==
  messages # <<>> /\ Last(messages).role = "user" /\ Last(messages).images > 0

-----------------------------------------------------------------------------
(* The guard.  Each pruning is a list, the same one when nothing is freed. *)

UsersOf(messages) == {i \in DOMAIN messages : messages[i].role = "user"}

\* The first of the largest user messages, cut to Prune and a note of one.
TruncateLargest(messages) ==
  LET size(i) == messages[i].size
      largest == {i \in UsersOf(messages) : size(i) > Prune /\
                    \A j \in UsersOf(messages) :
                      size(j) < size(i) \/ (size(j) = size(i) /\ i <= j)}
  IN  [i \in DOMAIN messages |->
        IF i \in largest THEN [messages[i] EXCEPT !.size = Prune + 1] ELSE messages[i]]

NewestFeedback(messages) == SelectLastInSeq(messages, LAMBDA m : m.role = "user" /\ m.kind = "repl")

\* It counts as pruned although it may have been a stub before.
StubNewest(messages) ==
  LET i == NewestFeedback(messages)
      Stub(m) == [m EXCEPT !.size = 1, !.images = 0]
  IN  [k \in DOMAIN messages |-> IF k = i THEN Stub(messages[k]) ELSE messages[k]]

\* The guard on the list about to be sent: what is sent if anything is, and
\* whether the context is replaced by it.
Guarded(anchor, messages, limit) ==
  LET fits(list) == Estimate(list) < limit
      cut  == TruncateLargest(messages)
      stub == StubNewest(cut)
      canCut  == \E i \in UsersOf(messages) : messages[i].size > Prune
      canStub == NewestFeedback(cut) # 0
      Result(list, persist, sends) == [list |-> list, persist |-> persist, sends |-> sends]
  IN  IF ~Anchored(anchor, messages) \/ LiveTokens(anchor, messages) < limit
      THEN Result(messages, FALSE, TRUE)
      ELSE IF canCut /\ fits(cut) THEN Result(cut, TRUE, TRUE)
      ELSE Result(stub, canCut \/ canStub, canStub /\ fits(stub))

=============================================================================
