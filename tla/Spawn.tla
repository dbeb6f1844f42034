-------------------------------- MODULE Spawn --------------------------------
(***************************************************************************)
(* Spawned agents.  All agents run on one thread: a child's turn is a call *)
(* from the code of its parent's block, so the running turns form a stack. *)
(* They share one interval timer and one registry of handles; each child   *)
(* has a work budget B that the growth of its context is charged to.       *)
(*                                                                         *)
(* Budget and context usage are counted in percent of the window; a turn   *)
(* is the checks, calls and blocks of run_rlm_loop and nothing else of it. *)
(***************************************************************************)
EXTENDS Integers, Sequences, FiniteSets

CONSTANTS
  MaxSpawns,     \* MAX_SPAWNS (5)
  MaxNesting,    \* MAX_NESTING_DEPTH (3)
  MaxTurns,      \* rlm.max_turns
  Timeout,       \* python_timeout_seconds
  Compress,      \* AUTO_COMPRESS_THRESHOLD (70)
  Target,        \* AUTO_COMPRESS_TARGET (28)
  Prompt,        \* context usage of a fresh child
  Usages,        \* context usage the main agent may have
  Growths,       \* what a call and its output add to the context
  Budgets,       \* budgets a spawn may be given
  Amounts,       \* amounts a budget may be extended by
  MaxChildren,   \* bound: children ever made
  MaxOrders      \* bound: instructions and grants after the spawn

ASSUME SpawnAssumption ==
  /\ {MaxSpawns, MaxNesting, MaxTurns, Timeout, MaxChildren, MaxOrders, Prompt, Target} \subseteq Nat
  /\ Growths \cup Usages \cup Budgets \cup Amounts \subseteq Nat

VARIABLES
  stack,     \* running turns, the main agent's first
  timer,     \* what is left on ITIMER_REAL, 0 when it is off
  child,     \* handle and agent of each child made so far
  registry,  \* children in SpawnRegistry._handles
  context,   \* context usage of the main agent
  orders     \* instructions and grants so far

vars == <<stack, timer, child, registry, context, orders>>

Main == 0
Children == DOMAIN child

Statuses == {"running", "completed", "suspect", "yielded", "budget_exhausted",
             "incomplete", "error", "closed"}

Top == stack[Len(stack)]
Running(phase) == Top.phase = phase
Frame(a, op) == [agent |-> a, op |-> op, phase |-> "compressing", left |-> 0, used |-> 0, saved |-> 0]
InPhase(f, phase) == [f EXCEPT !.phase = phase]
WithTop(f) == [stack EXCEPT ![Len(stack)] = f]
Below == SubSeq(stack, 1, Len(stack) - 1)

Depth(a) == IF a = Main THEN 0 ELSE child[a].depth
Usage(a) == IF a = Main THEN context ELSE child[a].usage

Larger(a, b) == IF a > b THEN a ELSE b
Smaller(a, b) == IF a < b THEN a ELSE b

Init ==
  /\ stack = <<[Frame(Main, "run") EXCEPT !.phase = "loop"]>>
  /\ timer = 0 /\ child = <<>> /\ registry = {} /\ context \in Usages /\ orders = 0

-----------------------------------------------------------------------------
(* A turn: the budget check, the call, the block                           *)

\* Active means not closed; a closed handle is also unregistered.
Active == {c \in registry : child[c].status # "closed"}

\* What a turn that ends with this answer says of the agent.
Verdict(c, answer) ==
  CASE answer = "yielded"         -> "yielded"
    [] answer = "ready"           -> "completed"
    [] answer = "ready but empty" -> "suspect"
    [] answer = "none"            -> IF child[c].budget <= 0 THEN "budget_exhausted" ELSE "incomplete"

\* SpawnHandle._update_status: a closed handle has no agent any more.
Judged(c, answer) == IF child[c].open THEN Verdict(c, answer) ELSE child[c].status

\* Mutant: the child's blocks have switched the parent's timer off.
TimerLost == timer' = 0

\* The timer the parent's block had when the turn began.
TimerResumed == timer' = Top.saved

\* Mutant: the limit is only looked at when the spawn begins.
RoomAtStart == TRUE

Registers == Cardinality(Active) < MaxSpawns

\* The turn of a child returns to the block that asked for it.  A spawn
\* registers the handle, or raises and the handle is lost.
Return(answer) ==
  LET c == Top.agent
      judged == [child EXCEPT ![c].status = Judged(c, answer),
                              ![c].forced = IF Top.op = "summarize" THEN FALSE ELSE @]
  IN  /\ stack' = Below /\ TimerResumed
      /\ IF Top.op # "spawn" THEN child' = judged /\ UNCHANGED registry
         ELSE IF Registers
              THEN child' = [judged EXCEPT ![c].held = TRUE] /\ registry' = registry \cup {c}
              ELSE child' = [judged EXCEPT ![c].open = FALSE] /\ UNCHANGED registry
      /\ UNCHANGED <<context, orders>>

Spent(budget) == budget <= 0

\* The iteration limit, then check_work_budget: growth since the last check
\* is charged, a shrunken context is not credited.
Check ==
  LET c == Top.agent
      growth == Larger(0, child[c].usage - child[c].last)
      charged == [child EXCEPT ![c].budget = Larger(0, @ - growth), ![c].last = child[c].usage,
                               ![c].least = Smaller(@, Larger(0, child[c].budget - growth)),
                               ![c].spent = @ + growth]
  IN  /\ Running("loop") /\ c # Main /\ Top.left > 0
      /\ child' = charged
      /\ stack' = WithTop([Top EXCEPT !.left = @ - 1,
                             !.phase = IF Spent(charged[c].budget) THEN "stopped" ELSE "call"])
      /\ UNCHANGED <<timer, registry, context, orders>>

\* Out of iterations, or out of budget: the turn ends without a ready flag.
EndOfBudget(answer) ==
  /\ Top.agent # Main
  /\ Running("stopped") \/ (Running("loop") /\ Top.left = 0)
  /\ answer \in {"none", "yielded"}
  /\ Return(answer)

\* A call, and the growth that it and the block after it bring.
Call(growth) ==
  /\ Running("call") \/ (Running("loop") /\ Top.agent = Main)
  /\ child' = IF Top.agent = Main THEN child
              ELSE [child EXCEPT ![Top.agent].usage = Smaller(100, @ + growth), ![Top.agent].calls = 1]
  /\ stack' = WithTop([Top EXCEPT !.phase = "block", !.used = 0])
  /\ timer' = Timeout
  /\ UNCHANGED <<registry, context, orders>>

\* The block ends by itself or because its time is up.
EndBlock ==
  /\ Running("block")
  /\ stack' = WithTop(InPhase(Top, IF Top.agent = Main THEN "loop" ELSE "ran"))
  /\ timer' = 0
  /\ UNCHANGED <<child, registry, context, orders>>

Tick ==
  /\ timer > 0
  /\ timer' = timer - 1
  /\ LET f == IF Running("block") THEN Len(stack) ELSE Len(stack) - 1
     IN  stack' = [stack EXCEPT ![f].used = @ + 1]
  /\ UNCHANGED <<child, registry, context, orders>>

\* Go on, or answer.
NextIteration ==
  /\ Running("ran")
  /\ stack' = WithTop(InPhase(Top, "loop"))
  /\ UNCHANGED <<timer, child, registry, context, orders>>

Answer(answer) == Running("ran") /\ Return(answer)

\* An exception leaves the turn.  A spawn closes the kernel and hands out a
\* handle it does not register; for a send it is the caller's exception.
TurnRaises ==
  LET c == Top.agent
  IN  /\ Running("call") /\ c # Main
      /\ stack' = Below /\ TimerResumed
      /\ child' = [child EXCEPT ![c].status = IF Top.op = "spawn" THEN "error" ELSE @,
                                ![c].failed = @ \/ Top.op = "spawn",
                                ![c].held = TRUE,
                                ![c].forced = IF Top.op = "summarize" THEN FALSE ELSE @]
      /\ UNCHANGED <<registry, context, orders>>

\* An alarm that came too late for its own block ends the child's turn and,
\* caught there, its parent's block; a handle being made is lost.
AlarmEscapes ==
  LET c == Top.agent
  IN  /\ Running("ran") /\ c # Main
      /\ stack' = [Below EXCEPT ![Len(Below)] =
                     InPhase(@, IF @.agent = Main THEN "loop" ELSE "ran")]
      /\ timer' = 0
      /\ child' = [child EXCEPT ![c].open = @ /\ Top.op # "spawn",
                                ![c].forced = IF Top.op = "summarize" THEN FALSE ELSE @]
      /\ UNCHANGED <<registry, context, orders>>

-----------------------------------------------------------------------------
(* What the code of a block may do                                         *)

InBlock == Running("block") /\ timer > 0

\* list_spawns and get_spawn find any handle that is registered.
Found(c) == c \in registry

\* Handles the code can reach: those, and the ones it was given.
Reachable(c) == Found(c) \/ (child[c].held /\ child[c].parent = Top.agent)
Usable(c) == child[c].open /\ child[c].status # "closed"

Spawn(budget, inherit) ==
  LET usage == IF inherit THEN Usage(Top.agent) ELSE Prompt
      start == Larger(0, budget - usage)
      c == Len(child) + 1
  IN  /\ InBlock /\ Depth(Top.agent) < MaxNesting
      /\ Cardinality(Active) < MaxSpawns /\ c <= MaxChildren
      /\ child' = Append(child,
           [status |-> "running", open |-> TRUE, held |-> FALSE, parent |-> Top.agent,
            depth |-> Depth(Top.agent) + 1, usage |-> usage, last |-> usage, granted |-> budget,
            budget |-> start, least |-> start, forced |-> FALSE, failed |-> FALSE,
            calls |-> 0, spent |-> 0, given |-> start, relieved |-> FALSE])
      /\ stack' = Append(stack, Frame(c, "spawn"))
      /\ UNCHANGED <<timer, registry, context, orders>>

\* send, resume or summarize; nothing asks whether the child is working.
Send(c, op) ==
  /\ InBlock /\ Reachable(c) /\ Usable(c) /\ orders < MaxOrders
  /\ stack' = Append(stack, Frame(c, op))
  /\ orders' = orders + 1
  /\ UNCHANGED <<timer, child, registry, context>>

\* _maybe_compress, still on the parent's time: B is set anew from a usage
\* that is divided by 100 once more.  Then the timer is put aside.
Enter(smaller) ==
  LET c == Top.agent
      compresses == child[c].open /\ child[c].usage >= Compress
      raised == Larger(child[c].budget, child[c].granted - smaller \div 100)
  IN  /\ Running("compressing") /\ timer > 0
      /\ smaller \in IF compresses THEN {Target, child[c].usage} ELSE {child[c].usage}
      /\ child' = [child EXCEPT ![c].usage = smaller,
                     ![c].budget = IF compresses THEN raised ELSE @,
                     ![c].relieved = @ \/ (compresses /\ raised > child[c].budget),
                     ![c].forced = @ \/ Top.op = "summarize"]
      /\ stack' = WithTop([Top EXCEPT !.phase = "loop", !.saved = timer,
                             !.left = IF child'[c].forced THEN 1 ELSE MaxTurns])
      /\ timer' = 0
      /\ UNCHANGED <<registry, context, orders>>

\* The parent's time runs out while its child's context is compressed.
AlarmInCompression ==
  /\ Running("compressing") /\ timer = 0
  /\ stack' = [Below EXCEPT ![Len(Below)] = InPhase(@, IF @.agent = Main THEN "loop" ELSE "ran")]
  /\ child' = [child EXCEPT ![Top.agent].open = @ /\ Top.op # "spawn"]
  /\ UNCHANGED <<timer, registry, context, orders>>

ExtendBudget(c, amount) ==
  /\ InBlock /\ Reachable(c) /\ Usable(c)
  /\ orders < MaxOrders /\ orders' = orders + 1
  /\ child' = [child EXCEPT ![c].budget = Smaller(@ + amount, 100), ![c].given = @ + amount]
  /\ UNCHANGED <<stack, timer, registry, context>>

\* Also of a child that is working, which goes on without its handle.
Close(c) ==
  /\ InBlock /\ Reachable(c) /\ child[c].status # "closed"
  /\ child' = [child EXCEPT ![c].status = "closed", ![c].open = FALSE]
  /\ registry' = registry \ {c}
  /\ UNCHANGED <<stack, timer, context, orders>>

\* The last reference to a handle goes away.
Collect(c) ==
  /\ child[c].held /\ \A f \in 1..Len(stack) : stack[f].agent # c
  /\ child' = [child EXCEPT ![c].held = FALSE, ![c].open = FALSE]
  /\ registry' = IF Usable(c) THEN registry \ {c} ELSE registry
  /\ UNCHANGED <<stack, timer, context, orders>>

Next ==
  \/ Check \/ EndBlock \/ Tick \/ NextIteration \/ TurnRaises \/ AlarmEscapes \/ AlarmInCompression
  \/ \E growth \in Growths : Call(growth)
  \/ \E answer \in {"none", "yielded"} : EndOfBudget(answer)
  \/ \E answer \in {"ready", "ready but empty", "yielded"} : Answer(answer)
  \/ \E budget \in Budgets, inherit \in BOOLEAN : Spawn(budget, inherit)
  \/ \E smaller \in 0..100 : Enter(smaller)
  \/ \E c \in Children :
       \/ \E op \in {"send", "summarize"} : Send(c, op)
       \/ \E amount \in Amounts : ExtendBudget(c, amount)
       \/ Close(c) \/ Collect(c)

Spec == Init /\ [][Next]_vars

-----------------------------------------------------------------------------
(* Properties                                                              *)

\* What is left of the time of the block of a turn.
Remaining(f) ==
  IF f = Len(stack) \/ stack[f + 1].phase = "compressing" THEN timer ELSE stack[f + 1].saved

\* A block is charged for its own time and never for its children's: through
\* any nesting, what it has used and what it has left make the timeout.
TimeKept ==
  \A f \in 1..Len(stack) :
    stack[f].phase = "block" => stack[f].used + Remaining(f) = Timeout

\* A closed handle stays closed, also when the child was working and returns.
ClosedStays ==
  [][\A c \in Children : (child[c].status = "closed") =>
       /\ child'[c].status = "closed" /\ ~child'[c].open
       /\ c \notin registry']_vars

\* However spawns nest, no more than the limit are registered, and every
\* handle that can be used holds a slot, unless its spawn had failed.
SlotsHeld ==
  /\ Cardinality(registry) <= MaxSpawns
  /\ \A c \in Children : child[c].held /\ Usable(c) => c \in registry \/ child[c].failed

\* "This is the ONLY way B increases", of extend_budget.
OnlyExtended ==
  [][\A c \in Children : child'[c].budget > child[c].budget => child'[c].given > child[c].given]_vars

\* "B_start=0 (1-turn spawn). Child gets exactly one LLM call."
OneCallAtLeast ==
  \A c \in Children : child[c].status = "budget_exhausted" => child[c].calls > 0

=============================================================================
