----------------------------- MODULE SpawnProofs -----------------------------
(***************************************************************************)
(* Proofs about spawned agents, for any limits, budgets and timeouts and   *)
(* any number of children: the timer that nested turns share, the slots of *)
(* the registry, and handles that stay closed.                             *)
(***************************************************************************)
EXTENDS Spawn, SequenceTheorems, FiniteSetTheorems, TLAPS

-----------------------------------------------------------------------------
(* Types                                                                   *)

Phases == {"compressing", "loop", "call", "block", "ran", "stopped"}
Ops    == {"run", "spawn", "send", "summarize"}

Frames == [agent : Nat, op : Ops, phase : Phases, left : Nat, used : Nat, saved : Nat]

Agents ==
  [status : Statuses, open : BOOLEAN, held : BOOLEAN, parent : Nat, depth : Nat,
   usage : Nat, last : Nat, granted : Nat, budget : Nat, least : Nat,
   forced : BOOLEAN, failed : BOOLEAN, calls : Nat, spent : Nat, given : Nat,
   relieved : BOOLEAN]

\* The running turns: the main agent's first, each but the last inside a
\* block, and the timer running for a block, the last turn's or its parent's.
Nested ==
  /\ stack # <<>> /\ stack[1].agent = Main /\ stack[1].op = "run"
  /\ stack[1].phase \in {"loop", "block"}
  /\ \A f \in 2..Len(stack) : stack[f].agent \in Children /\ stack[f].op # "run"
  /\ \A f \in 1..(Len(stack) - 1) : stack[f].phase = "block"
  /\ timer > 0 => Top.phase \in {"block", "compressing"}

TypeOK ==
  /\ stack \in Seq(Frames) /\ timer \in Nat /\ child \in Seq(Agents)
  /\ registry \subseteq Children /\ IsFiniteSet(registry)
  /\ context \in Nat /\ orders \in Nat
  /\ Nested

LEMMA Constants ==
  /\ MaxSpawns \in Nat /\ MaxNesting \in Nat /\ MaxTurns \in Nat /\ Timeout \in Nat
  /\ Prompt \in Nat /\ Target \in Nat
  /\ \A x \in Growths \cup Usages \cup Budgets \cup Amounts : x \in Nat
BY SpawnAssumption

LEMMA Numbers ==
  ASSUME NEW a \in Int, NEW b \in Int
  PROVE  /\ Larger(a, b) \in {a, b} /\ Larger(a, b) >= a /\ Larger(a, b) >= b
         /\ Smaller(a, b) \in {a, b} /\ Smaller(a, b) <= a /\ Smaller(a, b) <= b
BY DEF Larger, Smaller

\* The last turn is replaced.
LEMMA WithTopProps ==
  ASSUME TypeOK, NEW g \in Frames, stack' = WithTop(g)
  PROVE  /\ stack' \in Seq(Frames) /\ Len(stack') = Len(stack) /\ Len(stack) \in Nat \ {0}
         /\ stack'[Len(stack)] = g
         /\ \A f \in 1..(Len(stack) - 1) : stack'[f] = stack[f]
<1>1. stack \in Seq(Frames) /\ stack # <<>> /\ Len(stack) \in Nat
  BY DEF TypeOK, Nested
<1>2. Len(stack) \in 1..Len(stack) /\ Len(stack) # 0
  BY <1>1
<1>3. stack' = [stack EXCEPT ![Len(stack)] = g]
  BY DEF WithTop
<1> QED BY <1>1, <1>2, <1>3, ExceptSeq

\* The last turn is gone.
LEMMA BelowProps ==
  ASSUME TypeOK, Len(stack) >= 2
  PROVE  /\ Below \in Seq(Frames) /\ Len(Below) = Len(stack) - 1 /\ Len(stack) \in Nat
         /\ \A f \in 1..(Len(stack) - 1) : Below[f] = stack[f]
<1>1. stack \in Seq(Frames) /\ Len(stack) \in Nat
  BY DEF TypeOK
<1> DEFINE n == Len(stack) - 1
<1>2. n \in Nat /\ n >= 1 /\ \A i \in 1..n : stack[i] \in Frames
  BY <1>1
<1> HIDE DEF n
<1>3. SubSeq(stack, 1, n) \in Seq(Frames) /\ Len(SubSeq(stack, 1, n)) = (IF 1 <= n THEN n - 1 + 1 ELSE 0)
      /\ \A i \in 1..(n - 1 + 1) : SubSeq(stack, 1, n)[i] = stack[1 + i - 1]
  BY <1>2, SubSeqProperties
<1>4. n - 1 + 1 = n /\ \A i \in 1..n : 1 + i - 1 = i
  BY <1>2
<1>5. SubSeq(stack, 1, n) \in Seq(Frames) /\ Len(SubSeq(stack, 1, n)) = n
      /\ \A i \in 1..n : SubSeq(stack, 1, n)[i] = stack[i]
  BY <1>2, <1>3, <1>4
<1> QED BY <1>1, <1>5 DEF Below, n

LEMMA ChildrenProps ==
  ASSUME TypeOK
  PROVE  \A c \in Children : child[c] \in Agents /\ c \in 1..Len(child)
<1>1. child \in Seq(Agents)
  BY DEF TypeOK
<1>2. DOMAIN child = 1..Len(child)
  BY <1>1, LenProperties
<1> QED BY <1>1, <1>2 DEF Children

\* One child is changed.
LEMMA ChildProps ==
  ASSUME TypeOK, NEW c \in Children, NEW r \in Agents, child' = [child EXCEPT ![c] = r]
  PROVE  /\ child' \in Seq(Agents) /\ Len(child') = Len(child) /\ Children' = Children
         /\ child'[c] = r /\ \A d \in Children : d # c => child'[d] = child[d]
BY DEF TypeOK, Children

\* The turn on top.
LEMMA TopProps ==
  ASSUME TypeOK
  PROVE  /\ Top \in Frames /\ Len(stack) \in Nat \ {0} /\ Top = stack[Len(stack)]
         /\ Top.agent # Main => Len(stack) >= 2 /\ Top.agent \in Children /\ child[Top.agent] \in Agents
                                /\ Top.op # "run"
         /\ Top.phase \notin {"loop", "block"} => Top.agent # Main
         /\ Top.agent = Main => Len(stack) = 1
<1>1. stack \in Seq(Frames) /\ stack # <<>> /\ Len(stack) \in Nat /\ child \in Seq(Agents)
  BY DEF TypeOK, Nested
<1>2. Len(stack) # 0 /\ Len(stack) \in 1..Len(stack)
  BY <1>1
<1>3. \A c \in Children : child[c] \in Agents /\ c # 0
  BY <1>1 DEF Children
<1>4. Len(stack) = 1 \/ Len(stack) \in 2..Len(stack)
  <2>1. \A n \in Nat : n # 0 => n = 1 \/ n \in 2..n
    OBVIOUS
  <2> QED BY <1>1, <1>2, <2>1
<1>5. Len(stack) = 1 => Top.agent = Main /\ Top.phase \in {"loop", "block"}
  BY DEF TypeOK, Nested, Top
<1>6. Len(stack) \in 2..Len(stack) => Top.agent \in Children /\ Top.op # "run" /\ Len(stack) >= 2
  BY <1>1 DEF TypeOK, Nested, Top
<1> QED BY <1>1, <1>2, <1>3, <1>4, <1>5, <1>6 DEF Top, Main

-----------------------------------------------------------------------------
(* What a step does to the stack                                           *)

Alike(f) == stack'[f].agent = stack[f].agent /\ stack'[f].op = stack[f].op

\* The last turn goes on.
Replaced ==
  /\ Len(stack') = Len(stack)
  /\ \A f \in 1..Len(stack) : Alike(f)

\* The last turn ends.
Popped ==
  /\ Len(stack) >= 2 /\ Len(stack') = Len(stack) - 1
  /\ \A f \in 1..(Len(stack) - 1) : Alike(f)

\* A turn of c begins.
Pushed(c, op) ==
  /\ Len(stack') = Len(stack) + 1
  /\ \A f \in 1..Len(stack) : Alike(f)
  /\ stack'[Len(stack) + 1].agent = c /\ stack'[Len(stack) + 1].op = op

LEMMA ReplaceNested ==
  ASSUME TypeOK, NEW g \in Frames, stack' = WithTop(g), g.agent = Top.agent, g.op = Top.op,
         g.agent = Main => g.phase \in {"loop", "block"},
         timer' \in Nat, timer' > 0 => g.phase \in {"block", "compressing"},
         Children \subseteq Children'
  PROVE  stack' \in Seq(Frames) /\ Nested' /\ Replaced
<1>1. /\ stack' \in Seq(Frames) /\ Len(stack') = Len(stack) /\ Len(stack) \in Nat \ {0}
      /\ stack'[Len(stack)] = g /\ \A f \in 1..(Len(stack) - 1) : stack'[f] = stack[f]
  BY WithTopProps
<1>2. Top \in Frames /\ Top = stack[Len(stack)] /\ (Top.agent = Main => Len(stack) = 1)
      /\ (Top.agent # Main => Len(stack) >= 2)
  BY TopProps
<1>3. \A f \in 1..Len(stack) : f = Len(stack) \/ f \in 1..(Len(stack) - 1)
  BY <1>1
<1>4. Replaced
  BY <1>1, <1>2, <1>3 DEF Replaced, Alike
<1>5. stack' # <<>> /\ stack'[1].agent = Main /\ stack'[1].op = "run" /\ stack'[1].phase \in {"loop", "block"}
  <2>1. stack[1].agent = Main /\ stack[1].op = "run" /\ stack[1].phase \in {"loop", "block"}
    BY DEF TypeOK, Nested
  <2>2. CASE Len(stack) = 1
    BY <1>1, <1>2, <2>1, <2>2
  <2>3. CASE Len(stack) # 1
    <3>1. 1 \in 1..(Len(stack) - 1)
      BY <1>1, <2>3
    <3> QED BY <1>1, <2>1, <3>1
  <2> QED BY <2>2, <2>3
<1>6. \A f \in 2..Len(stack') : stack'[f].agent \in Children' /\ stack'[f].op # "run"
  <2>1. \A f \in 2..Len(stack) : stack[f].agent \in Children /\ stack[f].op # "run" /\ f \in 1..Len(stack)
    BY DEF TypeOK, Nested
  <2> QED BY <1>1, <1>4, <2>1 DEF Replaced, Alike
<1>7. \A f \in 1..(Len(stack') - 1) : stack'[f].phase = "block"
  BY <1>1 DEF TypeOK, Nested
<1> QED BY <1>1, <1>4, <1>5, <1>6, <1>7 DEF Nested, Top

LEMMA PopNested ==
  ASSUME TypeOK, Top.agent # Main, NEW g \in Frames, stack' = [Below EXCEPT ![Len(Below)] = g],
         g.agent = stack[Len(stack) - 1].agent, g.op = stack[Len(stack) - 1].op,
         g.agent = Main => g.phase \in {"loop", "block"},
         timer' \in Nat, timer' > 0 => g.phase = "block",
         Children \subseteq Children'
  PROVE  /\ stack' \in Seq(Frames) /\ Nested' /\ Popped
         /\ stack'[Len(stack) - 1] = g
         /\ \A f \in 1..(Len(stack) - 1) : f # Len(stack) - 1 => stack'[f] = stack[f]
<1>1. Len(stack) >= 2 /\ Len(stack) \in Nat
  BY TopProps
<1>2. Below \in Seq(Frames) /\ Len(Below) = Len(stack) - 1 /\ Len(Below) >= 1
      /\ \A f \in 1..(Len(stack) - 1) : Below[f] = stack[f]
  BY <1>1, BelowProps
<1>3. stack' \in Seq(Frames) /\ Len(stack') = Len(stack) - 1 /\ stack'[Len(stack) - 1] = g
      /\ \A f \in 1..(Len(stack) - 1) : f # Len(stack) - 1 => stack'[f] = stack[f]
  <2>1. Len(Below) \in 1..Len(Below)
    BY <1>1, <1>2
  <2>2. stack' \in Seq(Frames) /\ Len(stack') = Len(Below) /\ stack'[Len(Below)] = g
        /\ \A f \in 1..Len(Below) : f # Len(Below) => stack'[f] = Below[f]
    BY <1>2, <2>1, ExceptSeq
  <2> QED BY <1>2, <2>2
<1>4. \A f \in 1..(Len(stack) - 1) : Alike(f)
  BY <1>3 DEF Alike
<1>5. Popped
  BY <1>1, <1>3, <1>4 DEF Popped
<1>6. /\ stack[1].agent = Main /\ stack[1].op = "run" /\ stack[1].phase \in {"loop", "block"}
      /\ \A f \in 2..Len(stack) : stack[f].agent \in Children /\ stack[f].op # "run"
      /\ \A f \in 1..(Len(stack) - 1) : stack[f].phase = "block"
  BY DEF TypeOK, Nested
<1>7. stack' # <<>> /\ stack'[1].agent = Main /\ stack'[1].op = "run" /\ stack'[1].phase \in {"loop", "block"}
  <2>1. 1 \in 1..(Len(stack) - 1) /\ stack' # <<>>
    BY <1>1, <1>3
  <2>2. stack'[1].agent = Main /\ stack'[1].op = "run"
    BY <1>4, <1>6, <2>1 DEF Alike
  <2> QED BY <1>3, <1>6, <2>1, <2>2
<1>8. \A f \in 2..Len(stack') : stack'[f].agent \in Children' /\ stack'[f].op # "run"
  <2> SUFFICES ASSUME NEW f \in 2..Len(stack')
               PROVE  stack'[f].agent \in Children' /\ stack'[f].op # "run"
    OBVIOUS
  <2>1. f \in 2..Len(stack) /\ f \in 1..(Len(stack) - 1)
    BY <1>1, <1>3
  <2> QED BY <1>4, <1>6, <2>1 DEF Alike
<1>9. \A f \in 1..(Len(stack') - 1) : stack'[f].phase = "block"
  <2> SUFFICES ASSUME NEW f \in 1..(Len(stack') - 1)
               PROVE  stack'[f].phase = "block"
    OBVIOUS
  <2>1. f \in 1..(Len(stack) - 1) /\ f # Len(stack) - 1
    BY <1>1, <1>3
  <2> QED BY <1>3, <1>6, <2>1
<1> QED BY <1>1, <1>3, <1>5, <1>7, <1>8, <1>9 DEF Nested, Top

LEMMA BelowNested ==
  ASSUME TypeOK, Top.agent # Main, stack' = Below, timer' \in Nat, Children \subseteq Children'
  PROVE  /\ stack' \in Seq(Frames) /\ Nested' /\ Popped
         /\ \A f \in 1..(Len(stack) - 1) : stack'[f] = stack[f]
<1>1. Len(stack) >= 2 /\ Len(stack) \in Nat
  BY TopProps
<1>2. Below \in Seq(Frames) /\ Len(Below) = Len(stack) - 1 /\ Len(Below) \in 1..Len(Below)
      /\ \A f \in 1..(Len(stack) - 1) : Below[f] = stack[f]
  BY <1>1, BelowProps
<1> DEFINE g == Below[Len(Below)]
<1>3. g \in Frames /\ g = stack[Len(stack) - 1] /\ Len(stack) - 1 \in 1..(Len(stack) - 1)
  BY <1>2
<1>4. stack' = [Below EXCEPT ![Len(Below)] = g]
  BY <1>2
<1>5. \A f \in 1..(Len(stack) - 1) : stack[f].phase = "block"
  BY DEF TypeOK, Nested
<1>6. g.phase = "block"
  BY <1>3, <1>5
<1> HIDE DEF g
<1>7. stack' \in Seq(Frames) /\ Nested' /\ Popped
  BY <1>3, <1>4, <1>6, PopNested
<1> QED BY <1>2, <1>7

LEMMA PushNested ==
  ASSUME TypeOK, Top.phase = "block", NEW c \in Children', NEW op \in {"spawn", "send", "summarize"},
         stack' = Append(stack, Frame(c, op)), timer' \in Nat, Children \subseteq Children', c \in Nat
  PROVE  /\ stack' \in Seq(Frames) /\ Nested' /\ Pushed(c, op)
         /\ stack'[Len(stack) + 1] = Frame(c, op)
         /\ \A f \in 1..Len(stack) : stack'[f] = stack[f]
<1>1. Frame(c, op) \in Frames
  BY DEF Frame, Frames, Ops, Phases
<1>2. stack \in Seq(Frames) /\ Len(stack) \in Nat \ {0} /\ Top = stack[Len(stack)]
  BY TopProps DEF TypeOK
<1>3. stack' \in Seq(Frames) /\ Len(stack') = Len(stack) + 1 /\ stack'[Len(stack) + 1] = Frame(c, op)
      /\ \A f \in 1..Len(stack) : stack'[f] = stack[f]
  BY <1>1, <1>2
<1>4. Frame(c, op).agent = c /\ Frame(c, op).op = op /\ Frame(c, op).phase = "compressing"
  BY DEF Frame
<1>5. Pushed(c, op)
  BY <1>3, <1>4 DEF Pushed, Alike
<1>6. /\ stack[1].agent = Main /\ stack[1].op = "run" /\ stack[1].phase \in {"loop", "block"}
      /\ \A f \in 2..Len(stack) : stack[f].agent \in Children /\ stack[f].op # "run"
      /\ \A f \in 1..(Len(stack) - 1) : stack[f].phase = "block"
  BY DEF TypeOK, Nested
<1>7. stack' # <<>> /\ stack'[1].agent = Main /\ stack'[1].op = "run" /\ stack'[1].phase \in {"loop", "block"}
  <2>1. 1 \in 1..Len(stack) /\ stack' # <<>>
    BY <1>2, <1>3
  <2> QED BY <1>3, <1>6, <2>1
<1>8. \A f \in 2..Len(stack') : stack'[f].agent \in Children' /\ stack'[f].op # "run"
  <2> SUFFICES ASSUME NEW f \in 2..Len(stack')
               PROVE  stack'[f].agent \in Children' /\ stack'[f].op # "run"
    OBVIOUS
  <2>1. (f \in 2..Len(stack) /\ f \in 1..Len(stack)) \/ f = Len(stack) + 1
    BY <1>2, <1>3
  <2> QED BY <1>3, <1>4, <1>6, <2>1
<1>9. \A f \in 1..(Len(stack') - 1) : stack'[f].phase = "block"
  <2> SUFFICES ASSUME NEW f \in 1..(Len(stack') - 1)
               PROVE  stack'[f].phase = "block"
    OBVIOUS
  <2>1. f \in 1..Len(stack) /\ (f \in 1..(Len(stack) - 1) \/ f = Len(stack))
    BY <1>2, <1>3
  <2> QED BY <1>2, <1>3, <1>6, <2>1
<1> QED BY <1>2, <1>3, <1>4, <1>5, <1>7, <1>8, <1>9 DEF Nested, Top

-----------------------------------------------------------------------------
(* What a step does to the time of the blocks                              *)

\* The time a turn leaves to the block below it.
Left(f, t) == IF f.phase = "compressing" THEN t ELSE f.saved

LEMMA RemainingProps ==
  ASSUME TypeOK
  PROVE  /\ \A f \in 1..Len(stack) : f = Len(stack) => Remaining(f) = timer
         /\ \A f \in 1..(Len(stack) - 1) : Remaining(f) = Left(stack[f + 1], timer)
<1>1. Len(stack) \in Nat
  BY TopProps
<1>2. \A f \in 1..(Len(stack) - 1) : f # Len(stack)
  BY <1>1
<1> QED BY <1>2 DEF Remaining, Left

LEMMA RemainingNext ==
  ASSUME NEW n \in Nat, Len(stack') = n
  PROVE  /\ \A f \in 1..n : f = n => Remaining(f)' = timer'
         /\ \A f \in 1..(n - 1) : Remaining(f)' = Left(stack'[f + 1], timer')
<1>1. \A f \in 1..(n - 1) : f # n
  OBVIOUS
<1>2. \A f \in 1..n : f = n => Remaining(f)' = timer'
  BY DEF Remaining
<1>3. ASSUME NEW f \in 1..(n - 1)
      PROVE  Remaining(f)' = Left(stack'[f + 1], timer')
  <2>1. f # Len(stack')
    BY <1>1
  <2> QED BY <2>1 DEF Remaining, Left
<1> QED BY <1>2, <1>3

LEMMA ReplaceTime ==
  ASSUME TypeOK, TypeOK', TimeKept, NEW g \in Frames, stack' = WithTop(g),
         g.phase = "block" => g.used + timer' = Timeout,
         Len(stack) >= 2 => Left(g, timer') = Left(Top, timer)
  PROVE  TimeKept'
<1>1. /\ Len(stack') = Len(stack) /\ Len(stack) \in Nat \ {0} /\ stack'[Len(stack)] = g
      /\ \A f \in 1..(Len(stack) - 1) : stack'[f] = stack[f]
  BY WithTopProps
<1>2. /\ \A f \in 1..Len(stack) : f = Len(stack) => Remaining(f)' = timer'
      /\ \A f \in 1..(Len(stack) - 1) : Remaining(f)' = Left(stack'[f + 1], timer')
  BY <1>1, RemainingNext
<1>3. \A f \in 1..(Len(stack) - 1) : Remaining(f)' = Remaining(f)
  <2> SUFFICES ASSUME NEW f \in 1..(Len(stack) - 1)
               PROVE  Remaining(f)' = Remaining(f)
    OBVIOUS
  <2>1. Remaining(f)' = Left(stack'[f + 1], timer') /\ Remaining(f) = Left(stack[f + 1], timer)
    BY <1>2, RemainingProps
  <2>2. CASE f = Len(stack) - 1
    <3>1. f + 1 = Len(stack) /\ Len(stack) >= 2
      BY <1>1, <2>2
    <3> QED BY <1>1, <2>1, <3>1, TopProps
  <2>3. CASE f # Len(stack) - 1
    <3>1. f + 1 \in 1..(Len(stack) - 1)
      BY <1>1, <2>3
    <3>2. f + 1 # Len(stack)
      BY <1>1, <3>1
    <3>3. stack'[f + 1] = stack[f + 1] /\ stack[f + 1].phase = "block"
      BY <1>1, <3>1 DEF TypeOK, Nested
    <3> QED BY <2>1, <3>3 DEF Left
  <2> QED BY <2>2, <2>3
<1> SUFFICES ASSUME NEW f \in 1..Len(stack), stack'[f].phase = "block"
             PROVE  stack'[f].used + Remaining(f)' = Timeout
  BY <1>1 DEF TimeKept
<1>4. CASE f = Len(stack)
  BY <1>1, <1>2, <1>4
<1>5. CASE f # Len(stack)
  <2>1. f \in 1..(Len(stack) - 1)
    BY <1>1, <1>5
  <2>2. stack'[f] = stack[f] /\ Remaining(f)' = Remaining(f)
    BY <1>1, <1>3, <2>1
  <2> QED BY <2>2 DEF TimeKept
<1> QED BY <1>4, <1>5

LEMMA PushTime ==
  ASSUME TypeOK, TimeKept, NEW c, NEW op, timer' = timer,
         Len(stack') = Len(stack) + 1, stack'[Len(stack) + 1] = Frame(c, op),
         \A f \in 1..Len(stack) : stack'[f] = stack[f]
  PROVE  TimeKept'
<1> DEFINE n == Len(stack)
<1>1. n \in Nat \ {0}
  BY TopProps
<1>2. Frame(c, op).phase = "compressing"
  BY DEF Frame
<1>3. /\ \A f \in 1..(n + 1) : f = n + 1 => Remaining(f)' = timer'
      /\ \A f \in 1..n : Remaining(f)' = Left(stack'[f + 1], timer')
  <2>1. n + 1 \in Nat /\ n + 1 - 1 = n
    BY <1>1
  <2> QED BY <2>1, RemainingNext
<1>4. \A f \in 1..n : Remaining(f)' = Remaining(f)
  <2> SUFFICES ASSUME NEW f \in 1..n
               PROVE  Remaining(f)' = Remaining(f)
    OBVIOUS
  <2>1. CASE f = n
    BY <1>2, <1>3, <2>1, RemainingProps DEF Left
  <2>2. CASE f # n
    <3>1. f \in 1..(n - 1) /\ f + 1 \in 1..n
      BY <1>1, <2>2
    <3>2. Remaining(f) = Left(stack[f + 1], timer)
      BY <3>1, RemainingProps
    <3> QED BY <1>3, <3>1, <3>2
  <2> QED BY <2>1, <2>2
<1> SUFFICES ASSUME NEW f \in 1..(n + 1), stack'[f].phase = "block"
             PROVE  stack'[f].used + Remaining(f)' = Timeout
  BY DEF TimeKept
<1>5. f # n + 1
  BY <1>2
<1>6. f \in 1..n
  BY <1>1, <1>5
<1> QED BY <1>4, <1>6 DEF TimeKept

\* A turn that ends gives its caller's block the time that was put aside.
LEMMA PopTime ==
  ASSUME TypeOK, TimeKept, Top.phase # "compressing", timer' = Top.saved, Len(stack) >= 2,
         Len(stack') = Len(stack) - 1, \A f \in 1..(Len(stack) - 1) : stack'[f] = stack[f]
  PROVE  TimeKept'
<1> DEFINE n == Len(stack) - 1
<1>1. n \in Nat \ {0} /\ Top = stack[n + 1]
  BY TopProps
<1>2. \A f \in 1..n : Remaining(f)' = Remaining(f)
  <2> SUFFICES ASSUME NEW f \in 1..n
               PROVE  Remaining(f)' = Remaining(f)
    OBVIOUS
  <2>1. /\ f = n => Remaining(f)' = timer'
        /\ f \in 1..(n - 1) => Remaining(f)' = Left(stack'[f + 1], timer')
    BY <1>1, RemainingNext
  <2>2. Remaining(f) = Left(stack[f + 1], timer)
    BY RemainingProps
  <2>3. CASE f = n
    BY <1>1, <2>1, <2>2, <2>3 DEF Left
  <2>4. CASE f # n
    <3>1. f \in 1..(n - 1) /\ f + 1 \in 1..n
      BY <1>1, <2>4
    <3>2. stack[f + 1].phase = "block"
      BY <3>1 DEF TypeOK, Nested
    <3> QED BY <2>1, <2>2, <3>1, <3>2 DEF Left
  <2> QED BY <2>3, <2>4
<1>3. \A f \in 1..n : f \in 1..Len(stack)
  BY <1>1
<1> QED BY <1>2, <1>3 DEF TimeKept

\* An alarm that ends a turn ends its caller's block with it.
LEMMA EscapeTime ==
  ASSUME TypeOK, TimeKept, Len(stack) >= 2, Len(stack') = Len(stack) - 1,
         stack'[Len(stack) - 1].phase \in {"loop", "ran"},
         stack'[Len(stack) - 1].saved = stack[Len(stack) - 1].saved,
         \A f \in 1..(Len(stack) - 1) : f # Len(stack) - 1 => stack'[f] = stack[f]
  PROVE  TimeKept'
<1> DEFINE n == Len(stack) - 1
<1>1. n \in Nat \ {0}
  BY TopProps
<1> SUFFICES ASSUME NEW f \in 1..n, stack'[f].phase = "block"
             PROVE  stack'[f].used + Remaining(f)' = Timeout
  BY DEF TimeKept
<1>2. f # n /\ f \in 1..(n - 1) /\ f + 1 \in 1..n /\ f \in 1..Len(stack)
  <2>1. f # n
    OBVIOUS
  <2> QED BY <1>1, <2>1
<1>3. Remaining(f)' = Left(stack'[f + 1], timer') /\ Remaining(f) = Left(stack[f + 1], timer)
  BY <1>1, <1>2, RemainingNext, RemainingProps
<1>4. stack[f + 1].phase = "block"
  BY <1>2 DEF TypeOK, Nested
<1>5. Remaining(f)' = Remaining(f)
  <2>1. CASE f + 1 = n
    <3>1. stack'[f + 1].phase # "compressing"
      BY <2>1
    <3>2. stack'[f + 1].saved = stack[f + 1].saved
      BY <2>1
    <3> QED BY <1>3, <1>4, <3>1, <3>2 DEF Left
  <2>2. CASE f + 1 # n
    BY <1>2, <1>3, <1>4, <2>2 DEF Left
  <2> QED BY <2>1, <2>2
<1> QED BY <1>2, <1>5 DEF TimeKept

-----------------------------------------------------------------------------
(* What a step does to the handles, and that it keeps the types            *)

Same(d) ==
  /\ child'[d].status = child[d].status /\ child'[d].open = child[d].open
  /\ child'[d].held = child[d].held /\ child'[d].failed = child[d].failed

\* No handle changes.
Quiet ==
  /\ registry' = registry /\ Children' = Children
  /\ \A d \in Children : Same(d)

LEMMA QuietTypes ==
  ASSUME TypeOK, NEW c \in Children, NEW r \in Agents, child' = [child EXCEPT ![c] = r],
         r.status = child[c].status, r.open = child[c].open, r.held = child[c].held,
         r.failed = child[c].failed, registry' = registry,
         context' \in Nat, orders' \in Nat, timer' \in Nat, stack' \in Seq(Frames), Nested'
  PROVE  TypeOK' /\ Quiet
<1>1. child' \in Seq(Agents) /\ Children' = Children /\ child'[c] = r
      /\ \A d \in Children : d # c => child'[d] = child[d]
  BY ChildProps
<1>2. \A d \in Children : Same(d)
  BY <1>1 DEF Same
<1>3. registry' \subseteq Children' /\ IsFiniteSet(registry)'
  BY <1>1 DEF TypeOK
<1> QED BY <1>1, <1>2, <1>3 DEF TypeOK, Quiet

LEMMA QuietFrames ==
  ASSUME TypeOK, child' = child, registry' = registry,
         context' \in Nat, orders' \in Nat, timer' \in Nat, stack' \in Seq(Frames), Nested'
  PROVE  TypeOK' /\ Quiet
<1>1. Children' = Children
  BY DEF Children
<1>2. \A d \in Children : Same(d)
  BY DEF Same
<1> QED BY <1>1, <1>2 DEF TypeOK, Quiet

LEMMA Idle ==
  ASSUME TypeOK
  PROVE  Top.phase \notin {"block", "compressing"} => timer = 0
BY DEF TypeOK, Nested

LEMMA CheckStep ==
  ASSUME TypeOK, Check
  PROVE  TypeOK' /\ Quiet /\ Replaced /\ (TimeKept => TimeKept')
<1> DEFINE c == Top.agent
           growth == Larger(0, child[c].usage - child[c].last)
           r == [child[c] EXCEPT !.budget = Larger(0, child[c].budget - growth), !.last = child[c].usage,
                   !.least = Smaller(child[c].least, Larger(0, child[c].budget - growth)),
                   !.spent = child[c].spent + growth]
<1>1. c # Main /\ Top.phase = "loop" /\ Top.left > 0
  BY DEF Check, Running
<1>2. c \in Children /\ child[c] \in Agents /\ Top \in Frames /\ timer = 0
  BY <1>1, TopProps, Idle DEF TypeOK
<1>3. growth \in Nat
  BY <1>2, Numbers DEF Agents
<1>4. Larger(0, child[c].budget - growth) \in Nat
  BY <1>2, <1>3, Numbers DEF Agents
<1>5. Smaller(child[c].least, Larger(0, child[c].budget - growth)) \in Nat
  BY <1>2, <1>4, Numbers DEF Agents
<1>6. r \in Agents
  <2>1. child[c].spent + growth \in Nat /\ child[c].usage \in Nat
    BY <1>2, <1>3 DEF Agents
  <2>2. \A a \in Agents : \A b, u, l, s \in Nat :
          [a EXCEPT !.budget = b, !.last = u, !.least = l, !.spent = s] \in Agents
    BY DEF Agents
  <2> HIDE DEF growth
  <2> QED BY <1>2, <1>4, <1>5, <2>1, <2>2
<1>7. child' = [child EXCEPT ![c] = r]
  BY <1>2 DEF Check, TypeOK, Children, Agents
<1>8. PICK g \in Frames : stack' = WithTop(g) /\ g.agent = c /\ g.op = Top.op /\ g.phase \in {"stopped", "call"} /\ g.saved = Top.saved
  <2> DEFINE g == [Top EXCEPT !.left = Top.left - 1,
                     !.phase = IF Spent(child'[c].budget) THEN "stopped" ELSE "call"]
  <2>1. g \in Frames /\ g.agent = c /\ g.op = Top.op /\ g.phase \in {"stopped", "call"} /\ g.saved = Top.saved
    <3>1. Top.left - 1 \in Nat
      BY <1>1, <1>2 DEF Frames
    <3> DEFINE p == IF Spent(child'[c].budget) THEN "stopped" ELSE "call"
               n == Top.left - 1
    <3>2. p \in {"stopped", "call"} /\ g = [Top EXCEPT !.left = n, !.phase = p]
      OBVIOUS
    <3>3. n \in Nat
      BY <3>1
    <3> HIDE DEF p, n, c, g
    <3>4. g.agent = Top.agent /\ g.op = Top.op /\ g \in Frames /\ g.phase \in {"stopped", "call"} /\ g.saved = Top.saved
      BY <1>2, <3>2, <3>3 DEF Frames, Phases
    <3> QED BY <3>4 DEF c
  <2>2. stack' = WithTop(g)
    BY DEF Check
  <2> QED BY <2>1, <2>2
<1>9. r.status = child[c].status /\ r.open = child[c].open /\ r.held = child[c].held
      /\ r.failed = child[c].failed
  BY <1>2 DEF Agents
<1> HIDE DEF r, c
<1>10. timer' = timer /\ registry' = registry /\ context' = context /\ orders' = orders
  BY DEF Check
<1>11. Children \subseteq Children'
  BY <1>2, <1>6, <1>7, ChildProps
<1>12. stack' \in Seq(Frames) /\ Nested' /\ Replaced
  BY <1>1, <1>2, <1>8, <1>10, <1>11, ReplaceNested DEF c, TypeOK
<1>13. TypeOK' /\ Quiet
  BY <1>2, <1>6, <1>7, <1>9, <1>10, <1>12, QuietTypes DEF TypeOK
<1>14. Left(g, timer') = Left(Top, timer)
  BY <1>1, <1>8 DEF Left
<1> QED BY <1>8, <1>12, <1>13, <1>14, ReplaceTime

LEMMA CallStep ==
  ASSUME TypeOK, NEW growth \in Growths, Call(growth)
  PROVE  TypeOK' /\ Quiet /\ Replaced /\ (TimeKept => TimeKept')
<1> DEFINE g == [Top EXCEPT !.phase = "block", !.used = 0]
<1>1. Top \in Frames /\ timer' = Timeout /\ timer' \in Nat /\ registry' = registry
      /\ context' = context /\ orders' = orders /\ stack' = WithTop(g)
  BY TopProps, Constants DEF Call
<1>2. g \in Frames /\ g.agent = Top.agent /\ g.op = Top.op /\ g.phase = "block" /\ g.used = 0 /\ g.saved = Top.saved
  BY <1>1 DEF Frames, Phases
<1> HIDE DEF g
<1>5. TypeOK' => (TimeKept => TimeKept')
  <2>1. Top.phase # "compressing" /\ g.used + timer' = Timeout
    BY <1>1, <1>2, Constants DEF Call, Running
  <2>2. Left(g, timer') = Left(Top, timer)
    BY <1>2, <2>1 DEF Left
  <2> QED BY <1>1, <1>2, <2>1, <2>2, ReplaceTime
<1>3. CASE Top.agent = Main
  <2>1. child' = child /\ Children' = Children
    BY <1>3 DEF Call, Children
  <2>2. stack' \in Seq(Frames) /\ Nested' /\ Replaced
    BY <1>1, <1>2, <2>1, ReplaceNested
  <2> QED BY <1>1, <1>5, <2>1, <2>2, QuietFrames DEF TypeOK
<1>4. CASE Top.agent # Main
  <2> DEFINE c == Top.agent
             r == [child[c] EXCEPT !.usage = Smaller(100, child[c].usage + growth), !.calls = 1]
  <2>1. c \in Children /\ child[c] \in Agents
    BY <1>4, TopProps
  <2>2. Smaller(100, child[c].usage + growth) \in Nat
    <3>1. growth \in Nat /\ child[c].usage \in Nat
      BY <2>1, Constants DEF Agents
    <3> QED BY <3>1, Numbers
  <2>3. /\ r \in Agents
        /\ r.status = child[c].status /\ r.open = child[c].open /\ r.held = child[c].held
        /\ r.failed = child[c].failed
    BY <2>1, <2>2 DEF Agents
  <2>4. child' = [child EXCEPT ![c] = r]
    BY <1>4, <2>1 DEF Call, TypeOK, Children, Agents
  <2> HIDE DEF r, c
  <2>5. Children \subseteq Children'
    BY <2>1, <2>3, <2>4, ChildProps
  <2>6. stack' \in Seq(Frames) /\ Nested' /\ Replaced
    BY <1>1, <1>2, <1>4, <2>5, ReplaceNested
  <2> QED BY <1>1, <1>5, <2>1, <2>3, <2>4, <2>6, QuietTypes DEF TypeOK
<1> QED BY <1>3, <1>4

LEMMA EndBlockStep ==
  ASSUME TypeOK, EndBlock
  PROVE  TypeOK' /\ Quiet /\ Replaced /\ (TimeKept => TimeKept')
<1> DEFINE p == IF Top.agent = Main THEN "loop" ELSE "ran"
           g == InPhase(Top, p)
<1>1. Top \in Frames /\ timer' = 0 /\ registry' = registry /\ child' = child
      /\ context' = context /\ orders' = orders /\ stack' = WithTop(g)
  BY TopProps DEF EndBlock
<1>2. p \in {"loop", "ran"} /\ (Top.agent = Main => p = "loop")
  OBVIOUS
<1> HIDE DEF p
<1>3. g \in Frames /\ g.agent = Top.agent /\ g.op = Top.op /\ g.phase = p /\ g.saved = Top.saved
  BY <1>1, <1>2 DEF Frames, Phases, InPhase
<1> HIDE DEF g
<1>4. Children' = Children
  BY <1>1 DEF Children
<1>5. stack' \in Seq(Frames) /\ Nested' /\ Replaced
  BY <1>1, <1>2, <1>3, <1>4, ReplaceNested
<1>6. TypeOK' /\ Quiet
  BY <1>1, <1>5, QuietFrames DEF TypeOK
<1>7. Left(g, timer') = Left(Top, timer) /\ g.phase # "block"
  BY <1>2, <1>3 DEF Left, EndBlock, Running
<1> QED BY <1>1, <1>3, <1>5, <1>6, <1>7, ReplaceTime

LEMMA NextIterationStep ==
  ASSUME TypeOK, NextIteration
  PROVE  TypeOK' /\ Quiet /\ Replaced /\ (TimeKept => TimeKept')
<1> DEFINE g == InPhase(Top, "loop")
<1>1. Top \in Frames /\ timer' = timer /\ registry' = registry /\ child' = child
      /\ context' = context /\ orders' = orders /\ stack' = WithTop(g) /\ timer = 0
  BY TopProps, Idle DEF NextIteration, Running, TypeOK
<1>2. g \in Frames /\ g.agent = Top.agent /\ g.op = Top.op /\ g.phase = "loop" /\ g.saved = Top.saved
  BY <1>1 DEF Frames, Phases, InPhase
<1> HIDE DEF g
<1>3. Children' = Children
  BY <1>1 DEF Children
<1>4. stack' \in Seq(Frames) /\ Nested' /\ Replaced
  BY <1>1, <1>2, <1>3, ReplaceNested
<1>5. TypeOK' /\ Quiet
  BY <1>1, <1>4, QuietFrames DEF TypeOK
<1>6. Left(g, timer') = Left(Top, timer)
  BY <1>2 DEF Left, NextIteration, Running
<1> QED BY <1>1, <1>2, <1>4, <1>5, <1>6, ReplaceTime

LEMMA EnterStep ==
  ASSUME TypeOK, NEW smaller \in 0..100, Enter(smaller)
  PROVE  TypeOK' /\ Quiet /\ Replaced /\ (TimeKept => TimeKept')
<1> DEFINE c == Top.agent
           compresses == child[c].open /\ child[c].usage >= Compress
           raised == Larger(child[c].budget, child[c].granted - smaller \div 100)
           r == [child[c] EXCEPT !.usage = smaller,
                   !.budget = IF compresses THEN raised ELSE child[c].budget,
                   !.relieved = child[c].relieved \/ (compresses /\ raised > child[c].budget),
                   !.forced = child[c].forced \/ Top.op = "summarize"]
           g == [Top EXCEPT !.phase = "loop", !.saved = timer,
                   !.left = IF child'[c].forced THEN 1 ELSE MaxTurns]
<1>1. Top \in Frames /\ Top.phase = "compressing" /\ c # Main /\ c \in Children /\ child[c] \in Agents
  BY TopProps DEF Enter, Running
<1>2. timer' = 0 /\ registry' = registry /\ context' = context /\ orders' = orders
      /\ stack' = WithTop(g) /\ timer \in Nat
  BY DEF Enter, TypeOK
<1>3. raised \in Nat
  <2>1. \A b, k, s \in Nat : Larger(b, k - s \div 100) \in Nat
    BY DEF Larger
  <2>2. child[c].budget \in Nat /\ child[c].granted \in Nat /\ smaller \in Nat
    BY <1>1 DEF Agents
  <2> HIDE DEF c
  <2> QED BY <2>1, <2>2
<1>4. child' = [child EXCEPT ![c] = r]
  BY <1>1 DEF Enter, TypeOK, Children, Agents
<1>5. /\ r \in Agents
      /\ r.status = child[c].status /\ r.open = child[c].open /\ r.held = child[c].held
      /\ r.failed = child[c].failed
  <2> DEFINE b == IF compresses THEN raised ELSE child[c].budget
             v == child[c].relieved \/ (compresses /\ raised > child[c].budget)
             d == child[c].forced \/ Top.op = "summarize"
  <2>1. b \in Nat /\ v \in BOOLEAN /\ d \in BOOLEAN /\ smaller \in Nat
    BY <1>1, <1>3 DEF Agents
  <2>2. r = [child[c] EXCEPT !.usage = smaller, !.budget = b, !.relieved = v, !.forced = d]
    OBVIOUS
  <2> HIDE DEF b, v, d, r
  <2> QED BY <1>1, <2>1, <2>2 DEF Agents
<1> HIDE DEF r
<1>6. g \in Frames /\ g.agent = Top.agent /\ g.op = Top.op /\ g.phase = "loop" /\ g.saved = timer
  <2> DEFINE l == IF child'[c].forced THEN 1 ELSE MaxTurns
  <2>1. l \in Nat /\ g = [Top EXCEPT !.phase = "loop", !.saved = timer, !.left = l]
    BY Constants
  <2> HIDE DEF l, g
  <2> QED BY <1>1, <1>2, <2>1 DEF Frames, Phases
<1> HIDE DEF g
<1>7. Children \subseteq Children'
  BY <1>1, <1>4, <1>5, ChildProps
<1>8. stack' \in Seq(Frames) /\ Nested' /\ Replaced
  BY <1>1, <1>2, <1>6, <1>7, ReplaceNested
<1>9. TypeOK' /\ Quiet
  BY <1>1, <1>2, <1>4, <1>5, <1>8, QuietTypes DEF TypeOK
<1>10. Left(g, timer') = Left(Top, timer)
  BY <1>1, <1>6 DEF Left
<1> QED BY <1>2, <1>6, <1>8, <1>9, <1>10, ReplaceTime

\* The clock runs for one turn in a block, the last or the one below it.
Charged(f) ==
  /\ f \in 1..Len(stack) /\ stack[f].phase = "block" /\ Len(stack') = Len(stack)
  /\ stack'[f] = [stack[f] EXCEPT !.used = stack[f].used + 1]
  /\ \A h \in 1..Len(stack) : h # f => stack'[h] = stack[h]
  /\ timer > 0 /\ timer' = timer - 1
  /\ \/ f = Len(stack)
     \/ f = Len(stack) - 1 /\ Top.phase = "compressing"

LEMMA TickStep ==
  ASSUME TypeOK, Tick
  PROVE  TypeOK' /\ Quiet /\ Replaced /\ \E f \in Nat : Charged(f)
<1> DEFINE f == IF Running("block") THEN Len(stack) ELSE Len(stack) - 1
           g == [stack[f] EXCEPT !.used = stack[f].used + 1]
<1>1. /\ stack \in Seq(Frames) /\ Len(stack) \in Nat \ {0} /\ Top = stack[Len(stack)]
      /\ timer > 0 /\ timer' = timer - 1 /\ timer' \in Nat
      /\ registry' = registry /\ child' = child /\ context' = context /\ orders' = orders
  BY TopProps DEF Tick, TypeOK
<1>2. Top.phase \in {"block", "compressing"}
  BY <1>1 DEF TypeOK, Nested
<1>3. /\ f \in 1..Len(stack) /\ stack[f].phase = "block"
      /\ f = Len(stack) \/ (f = Len(stack) - 1 /\ Top.phase = "compressing")
  <2>1. CASE Top.phase = "block"
    BY <1>1, <2>1 DEF Running
  <2>2. CASE Top.phase = "compressing"
    <3>1. Len(stack) >= 2
      BY <2>2, TopProps
    <3>2. f = Len(stack) - 1 /\ f \in 1..(Len(stack) - 1) /\ f \in 1..Len(stack)
      BY <1>1, <2>2, <3>1 DEF Running
    <3> QED BY <2>2, <3>2 DEF TypeOK, Nested
  <2> QED BY <1>2, <2>1, <2>2
<1>4. stack[f] \in Frames
  BY <1>1, <1>3
<1>5. stack' = [stack EXCEPT ![f] = g]
  BY <1>1, <1>3, <1>4 DEF Tick, Frames
<1> HIDE DEF f
<1>6. g \in Frames /\ g.agent = stack[f].agent /\ g.op = stack[f].op /\ g.phase = "block"
  BY <1>3, <1>4 DEF Frames
<1>7. /\ stack' \in Seq(Frames) /\ Len(stack') = Len(stack) /\ stack'[f] = g
      /\ \A h \in 1..Len(stack) : h # f => stack'[h] = stack[h]
  <2> HIDE DEF g
  <2> QED BY <1>1, <1>3, <1>5, <1>6, ExceptSeq
<1>8. Charged(f)
  BY <1>1, <1>3, <1>7 DEF Charged
<1>9. \A h \in 1..Len(stack) : Alike(h) /\ stack'[h].phase = stack[h].phase
  BY <1>3, <1>6, <1>7 DEF Alike
<1>10. Children' = Children
  BY <1>1 DEF Children
<1>11. Nested'
  <2>1. /\ stack # <<>> /\ stack[1].agent = Main /\ stack[1].op = "run" /\ stack[1].phase \in {"loop", "block"}
        /\ \A h \in 2..Len(stack) : stack[h].agent \in Children /\ stack[h].op # "run"
        /\ \A h \in 1..(Len(stack) - 1) : stack[h].phase = "block"
    BY DEF TypeOK, Nested
  <2>2. 1 \in 1..Len(stack) /\ Len(stack) \in 1..Len(stack) /\ \A h \in 2..Len(stack) : h \in 1..Len(stack)
    BY <1>1
  <2>3. \A h \in 1..(Len(stack) - 1) : h \in 1..Len(stack)
    BY <1>1
  <2>4. stack' # <<>> /\ stack'[1].agent = Main /\ stack'[1].op = "run" /\ stack'[1].phase \in {"loop", "block"}
    BY <1>1, <1>7, <1>9, <2>1, <2>2 DEF Alike
  <2>5. \A h \in 2..Len(stack') : stack'[h].agent \in Children' /\ stack'[h].op # "run"
    BY <1>7, <1>9, <1>10, <2>1, <2>2 DEF Alike
  <2>6. \A h \in 1..(Len(stack') - 1) : stack'[h].phase = "block"
    BY <1>7, <1>9, <2>1, <2>3
  <2>7. Top'.phase = Top.phase
    BY <1>1, <1>7, <1>9, <2>2 DEF Top
  <2> QED BY <1>2, <2>4, <2>5, <2>6, <2>7 DEF Nested
<1>12. Replaced
  BY <1>7, <1>9 DEF Replaced
<1>13. f \in Nat
  BY <1>3
<1> QED BY <1>1, <1>7, <1>8, <1>11, <1>12, <1>13, QuietFrames DEF TypeOK

LEMMA SendStep ==
  ASSUME TypeOK, NEW c \in Children, NEW op \in {"send", "summarize"}, Send(c, op)
  PROVE  TypeOK' /\ Quiet /\ Pushed(c, op) /\ Reachable(c) /\ Usable(c)
         /\ (TimeKept => TimeKept')
<1>1. /\ Top.phase = "block" /\ stack' = Append(stack, Frame(c, op)) /\ orders' = orders + 1
      /\ timer' = timer /\ child' = child /\ registry' = registry /\ context' = context
      /\ Reachable(c) /\ Usable(c)
  BY DEF Send, InBlock, Running
<1>2. Children' = Children /\ c \in Nat
  BY <1>1 DEF Children, TypeOK
<1>3. /\ stack' \in Seq(Frames) /\ Nested' /\ Pushed(c, op)
      /\ stack'[Len(stack) + 1] = Frame(c, op) /\ \A f \in 1..Len(stack) : stack'[f] = stack[f]
  BY <1>1, <1>2, PushNested DEF TypeOK
<1>4. TypeOK' /\ Quiet
  BY <1>1, <1>3, QuietFrames DEF TypeOK
<1>5. TimeKept => TimeKept'
  BY <1>1, <1>3, PushTime DEF Pushed
<1> QED BY <1>1, <1>3, <1>4, <1>5

LEMMA ExtendStep ==
  ASSUME TypeOK, NEW c \in Children, NEW amount \in Amounts, ExtendBudget(c, amount)
  PROVE  TypeOK' /\ Quiet /\ Replaced
<1> DEFINE r == [child[c] EXCEPT !.budget = Smaller(child[c].budget + amount, 100),
                                 !.given = child[c].given + amount]
<1>1. /\ stack' = stack /\ timer' = timer /\ registry' = registry /\ context' = context
      /\ orders' = orders + 1 /\ child[c] \in Agents
  BY DEF ExtendBudget, TypeOK, Children
<1>2. child' = [child EXCEPT ![c] = r]
  BY <1>1 DEF ExtendBudget, TypeOK, Children, Agents
<1>3. /\ r \in Agents
      /\ r.status = child[c].status /\ r.open = child[c].open /\ r.held = child[c].held
      /\ r.failed = child[c].failed
  <2>1. amount \in Nat /\ child[c].budget \in Nat /\ child[c].given \in Nat
    BY <1>1, Constants DEF Agents
  <2>2. Smaller(child[c].budget + amount, 100) \in Nat /\ child[c].given + amount \in Nat
    BY <2>1, Numbers
  <2> QED BY <1>1, <2>2 DEF Agents
<1> HIDE DEF r
<1>4. Children' = Children
  BY <1>2, <1>3, ChildProps
<1>5. Nested' /\ Replaced
  BY <1>1, <1>4 DEF TypeOK, Nested, Top, Replaced, Alike
<1>6. context' \in Nat /\ orders' \in Nat /\ timer' \in Nat /\ stack' \in Seq(Frames)
  BY <1>1 DEF TypeOK
<1> QED BY <1>1, <1>2, <1>3, <1>5, <1>6, QuietTypes

\* One handle changes.
Becomes(c, status, open, held, failed) ==
  /\ Children' = Children
  /\ child'[c].status = status /\ child'[c].open = open
  /\ child'[c].held = held /\ child'[c].failed = failed
  /\ \A d \in Children : d # c => Same(d)

LEMMA BecomesTypes ==
  ASSUME TypeOK, NEW c \in Children, NEW r \in Agents, child' = [child EXCEPT ![c] = r],
         registry' \subseteq Children, IsFiniteSet(registry'),
         context' \in Nat, orders' \in Nat, timer' \in Nat, stack' \in Seq(Frames), Nested'
  PROVE  TypeOK' /\ Becomes(c, r.status, r.open, r.held, r.failed)
<1>1. child' \in Seq(Agents) /\ Children' = Children /\ child'[c] = r
      /\ \A d \in Children : d # c => child'[d] = child[d]
  BY ChildProps
<1> QED BY <1>1 DEF TypeOK, Becomes, Same

LEMMA JudgedType ==
  ASSUME TypeOK, NEW c \in Children, NEW answer \in {"none", "yielded", "ready", "ready but empty"}
  PROVE  /\ Judged(c, answer) \in Statuses
         /\ ~child[c].open => Judged(c, answer) = child[c].status
         /\ child[c].open => Judged(c, answer) # "closed"
<1>1. child[c] \in Agents
  BY ChildrenProps
<1>2. child[c].status \in Statuses
  BY <1>1 DEF Agents
<1>3. ~child[c].open => Judged(c, answer) = child[c].status
  BY DEF Judged
<1>4. child[c].open => Judged(c, answer) \in {"yielded", "completed", "suspect", "budget_exhausted", "incomplete"}
  BY DEF Judged, Verdict
<1> QED BY <1>2, <1>3, <1>4 DEF Statuses

LEMMA ReturnStep ==
  ASSUME TypeOK, Top.agent # Main, NEW answer \in {"none", "yielded", "ready", "ready but empty"},
         Return(answer)
  PROVE  LET c == Top.agent
             status == Judged(c, answer)
         IN  /\ TypeOK' /\ Popped /\ c \in Children
             /\ \A f \in 1..(Len(stack) - 1) : stack'[f] = stack[f]
             /\ timer' = Top.saved
             /\ \/ /\ Top.op # "spawn" /\ registry' = registry
                   /\ Becomes(c, status, child[c].open, child[c].held, child[c].failed)
                \/ /\ Top.op = "spawn" /\ Registers /\ registry' = registry \cup {c}
                   /\ Becomes(c, status, child[c].open, TRUE, child[c].failed)
                \/ /\ Top.op = "spawn" /\ registry' = registry
                   /\ Becomes(c, status, FALSE, child[c].held, child[c].failed)
<1> DEFINE c == Top.agent
           status == Judged(c, answer)
           forced == IF Top.op = "summarize" THEN FALSE ELSE child[c].forced
           r1 == [child[c] EXCEPT !.status = status, !.forced = forced]
           r2 == [child[c] EXCEPT !.status = status, !.forced = forced, !.held = TRUE]
           r3 == [child[c] EXCEPT !.status = status, !.forced = forced, !.open = FALSE]
           judged == [child EXCEPT ![c] = r1]
<1>1. c \in Children /\ child[c] \in Agents /\ Top \in Frames /\ child \in Seq(Agents)
  BY TopProps DEF TypeOK
<1>2. status \in Statuses
  BY <1>1, JudgedType
<1>3. forced \in BOOLEAN
  BY <1>1 DEF Agents
<1>4. stack' = Below /\ timer' = Top.saved /\ timer' \in Nat /\ context' = context /\ orders' = orders
  BY <1>1 DEF Return, TimerResumed, Frames
<1>5. judged = [child EXCEPT ![c].status = status, ![c].forced = IF Top.op = "summarize" THEN FALSE ELSE @]
  BY <1>1 DEF Agents, Children
<1>6. \/ Top.op # "spawn" /\ registry' = registry /\ child' = judged
      \/ Top.op = "spawn" /\ Registers /\ registry' = registry \cup {c}
         /\ child' = [judged EXCEPT ![c].held = TRUE]
      \/ Top.op = "spawn" /\ registry' = registry /\ child' = [judged EXCEPT ![c].open = FALSE]
  <2> HIDE DEF status, judged, forced, r1
  <2> QED BY <1>5 DEF Return, status
<1> HIDE DEF status, forced
<1>7. r1 \in Agents /\ r2 \in Agents /\ r3 \in Agents
  BY <1>1, <1>2, <1>3 DEF Agents
<1>8. /\ r1.status = status /\ r1.open = child[c].open /\ r1.held = child[c].held /\ r1.failed = child[c].failed
      /\ r2.status = status /\ r2.open = child[c].open /\ r2.held = TRUE /\ r2.failed = child[c].failed
      /\ r3.status = status /\ r3.open = FALSE /\ r3.held = child[c].held /\ r3.failed = child[c].failed
  BY <1>1 DEF Agents
<1>9. /\ [judged EXCEPT ![c].held = TRUE] = [child EXCEPT ![c] = r2]
      /\ [judged EXCEPT ![c].open = FALSE] = [child EXCEPT ![c] = r3]
  BY <1>1 DEF Agents, Children
<1>10. Children' = Children
  <2> HIDE DEF r1, r2, r3, c
  <2>1. \/ child' = [child EXCEPT ![c] = r1] \/ child' = [child EXCEPT ![c] = r2]
        \/ child' = [child EXCEPT ![c] = r3]
    BY <1>6, <1>9
  <2> QED BY <1>1, <1>7, <2>1, ChildProps
<1>11. /\ stack' \in Seq(Frames) /\ Nested' /\ Popped
       /\ \A f \in 1..(Len(stack) - 1) : stack'[f] = stack[f]
  BY <1>4, <1>10, BelowNested
<1>12. registry' \subseteq Children /\ IsFiniteSet(registry')
  <2>1. registry \subseteq Children /\ IsFiniteSet(registry)
    BY DEF TypeOK
  <2>2. registry' = registry \/ registry' = registry \cup {c}
    BY <1>6
  <2>3. IsFiniteSet(registry \cup {c})
    BY <2>1, FS_AddElement
  <2> QED BY <1>1, <2>1, <2>2, <2>3
<1>13. context' \in Nat /\ orders' \in Nat
  BY <1>4 DEF TypeOK
<1> HIDE DEF r1, r2, r3, c
<1>14. CASE Top.op # "spawn" /\ registry' = registry /\ child' = judged
  <2>1. TypeOK' /\ Becomes(c, r1.status, r1.open, r1.held, r1.failed)
    BY <1>1, <1>4, <1>7, <1>11, <1>12, <1>13, <1>14, BecomesTypes
  <2> QED BY <1>1, <1>4, <1>8, <1>11, <1>14, <2>1 DEF c, status
<1>15. CASE Top.op = "spawn" /\ Registers /\ registry' = registry \cup {c}
            /\ child' = [judged EXCEPT ![c].held = TRUE]
  <2>1. TypeOK' /\ Becomes(c, r2.status, r2.open, r2.held, r2.failed)
    BY <1>1, <1>4, <1>7, <1>9, <1>11, <1>12, <1>13, <1>15, BecomesTypes
  <2> QED BY <1>1, <1>4, <1>8, <1>11, <1>15, <2>1 DEF c, status
<1>16. CASE Top.op = "spawn" /\ registry' = registry /\ child' = [judged EXCEPT ![c].open = FALSE]
  <2>1. TypeOK' /\ Becomes(c, r3.status, r3.open, r3.held, r3.failed)
    BY <1>1, <1>4, <1>7, <1>9, <1>11, <1>12, <1>13, <1>16, BecomesTypes
  <2> QED BY <1>1, <1>4, <1>8, <1>11, <1>16, <2>1 DEF c, status
<1> QED BY <1>6, <1>14, <1>15, <1>16

LEMMA RaisesStep ==
  ASSUME TypeOK, TurnRaises
  PROVE  LET c == Top.agent
         IN  /\ TypeOK' /\ Popped /\ c \in Children
             /\ \A f \in 1..(Len(stack) - 1) : stack'[f] = stack[f]
             /\ timer' = Top.saved /\ Top.phase = "call" /\ registry' = registry
             /\ \/ Top.op = "spawn" /\ Becomes(c, "error", child[c].open, TRUE, TRUE)
                \/ Top.op # "spawn" /\ Becomes(c, child[c].status, child[c].open, TRUE, child[c].failed)
<1> DEFINE c == Top.agent
           status == IF Top.op = "spawn" THEN "error" ELSE child[c].status
           failed == child[c].failed \/ Top.op = "spawn"
           forced == IF Top.op = "summarize" THEN FALSE ELSE child[c].forced
           r == [child[c] EXCEPT !.status = status, !.failed = failed, !.held = TRUE, !.forced = forced]
<1>1. /\ c # Main /\ c \in Children /\ child[c] \in Agents /\ Top \in Frames /\ child \in Seq(Agents)
      /\ Top.phase = "call"
  BY TopProps DEF TypeOK, TurnRaises, Running
<1>2. status \in Statuses /\ failed \in BOOLEAN /\ forced \in BOOLEAN
  BY <1>1 DEF Agents, Statuses
<1>3. /\ stack' = Below /\ timer' = Top.saved /\ timer' \in Nat /\ context' = context
      /\ orders' = orders /\ registry' = registry
  BY <1>1 DEF TurnRaises, TimerResumed, Frames
<1>4. child' = [child EXCEPT ![c] = r]
  BY <1>1 DEF TurnRaises, Agents, Children
<1>5. /\ Top.op = "spawn" => status = "error" /\ failed = TRUE
      /\ Top.op # "spawn" => status = child[c].status /\ failed = child[c].failed
  BY <1>1 DEF Agents
<1> HIDE DEF status, failed, forced
<1>6. r \in Agents /\ r.status = status /\ r.open = child[c].open /\ r.held = TRUE /\ r.failed = failed
  BY <1>1, <1>2 DEF Agents
<1> HIDE DEF r, c
<1>7. Children' = Children
  BY <1>1, <1>4, <1>6, ChildProps
<1>8. /\ stack' \in Seq(Frames) /\ Nested' /\ Popped
      /\ \A f \in 1..(Len(stack) - 1) : stack'[f] = stack[f]
  BY <1>1, <1>3, <1>7, BelowNested DEF c
<1>9. context' \in Nat /\ orders' \in Nat /\ registry' \subseteq Children /\ IsFiniteSet(registry')
  BY <1>3 DEF TypeOK
<1>10. TypeOK' /\ Becomes(c, r.status, r.open, r.held, r.failed)
  BY <1>1, <1>3, <1>4, <1>6, <1>8, <1>9, BecomesTypes
<1>11. Becomes(c, status, child[c].open, TRUE, failed)
  BY <1>6, <1>10
<1> QED BY <1>1, <1>3, <1>5, <1>8, <1>10, <1>11 DEF c

\* The turn below, whose block the alarm ends.
LEMMA CallerProps ==
  ASSUME TypeOK, Top.agent # Main,
         stack' = [Below EXCEPT ![Len(Below)] = InPhase(@, IF @.agent = Main THEN "loop" ELSE "ran")],
         timer' = 0, Children' = Children
  PROVE  /\ stack' \in Seq(Frames) /\ Nested' /\ Popped
         /\ stack'[Len(stack) - 1].phase \in {"loop", "ran"}
         /\ stack'[Len(stack) - 1].saved = stack[Len(stack) - 1].saved
         /\ \A f \in 1..(Len(stack) - 1) : f # Len(stack) - 1 => stack'[f] = stack[f]
<1>1. Len(stack) >= 2 /\ Len(stack) \in Nat
  BY TopProps
<1>2. Below \in Seq(Frames) /\ Len(Below) = Len(stack) - 1 /\ Len(Below) \in 1..Len(Below)
      /\ \A f \in 1..(Len(stack) - 1) : Below[f] = stack[f]
  BY <1>1, BelowProps
<1> DEFINE h == stack[Len(stack) - 1]
           p == IF h.agent = Main THEN "loop" ELSE "ran"
           g == InPhase(h, p)
<1>3. h \in Frames /\ h = Below[Len(Below)]
  BY <1>2
<1>4. p \in {"loop", "ran"} /\ (h.agent = Main => p = "loop")
  OBVIOUS
<1>5. stack' = [Below EXCEPT ![Len(Below)] = g]
  BY <1>2, <1>3
<1> HIDE DEF h, p
<1>6. g \in Frames /\ g.agent = h.agent /\ g.op = h.op /\ g.phase = p /\ g.saved = h.saved
  BY <1>3, <1>4 DEF InPhase, Frames, Phases
<1> HIDE DEF g
<1>7. /\ stack' \in Seq(Frames) /\ Nested' /\ Popped /\ stack'[Len(stack) - 1] = g
      /\ \A f \in 1..(Len(stack) - 1) : f # Len(stack) - 1 => stack'[f] = stack[f]
  <2>1. /\ g.agent = stack[Len(stack) - 1].agent /\ g.op = stack[Len(stack) - 1].op
        /\ g.agent = Main => g.phase \in {"loop", "block"}
    BY <1>4, <1>6 DEF h
  <2>2. timer' \in Nat /\ ~(timer' > 0) /\ Children \subseteq Children'
    OBVIOUS
  <2> QED BY <1>5, <1>6, <2>1, <2>2, PopNested
<1> QED BY <1>4, <1>6, <1>7 DEF h

\* An alarm that ends a turn from outside, with or without its instruction.
LEMMA EscapeStep ==
  ASSUME TypeOK, AlarmEscapes \/ AlarmInCompression
  PROVE  LET c == Top.agent
         IN  /\ TypeOK' /\ Popped /\ c \in Children /\ registry' = registry
             /\ timer' = 0 /\ stack'[Len(stack) - 1].phase \in {"loop", "ran"}
             /\ stack'[Len(stack) - 1].saved = stack[Len(stack) - 1].saved
             /\ \A f \in 1..(Len(stack) - 1) : f # Len(stack) - 1 => stack'[f] = stack[f]
             /\ Becomes(c, child[c].status, child[c].open /\ Top.op # "spawn", child[c].held, child[c].failed)
<1> DEFINE c == Top.agent
           open == child[c].open /\ Top.op # "spawn"
           forced == IF Top.op = "summarize" THEN FALSE ELSE child[c].forced
           r1 == [child[c] EXCEPT !.open = open, !.forced = forced]
           r2 == [child[c] EXCEPT !.open = open]
<1>1. /\ c # Main /\ c \in Children /\ child[c] \in Agents /\ Top \in Frames /\ child \in Seq(Agents)
  BY TopProps DEF TypeOK, AlarmEscapes, AlarmInCompression, Running
<1>2. open \in BOOLEAN /\ forced \in BOOLEAN
  BY <1>1 DEF Agents
<1>3. /\ stack' = [Below EXCEPT ![Len(Below)] = InPhase(@, IF @.agent = Main THEN "loop" ELSE "ran")]
      /\ timer' = 0 /\ context' = context /\ orders' = orders /\ registry' = registry
  BY DEF AlarmEscapes, AlarmInCompression
<1>4. child' = [child EXCEPT ![c] = r1] \/ child' = [child EXCEPT ![c] = r2]
  BY <1>1 DEF AlarmEscapes, AlarmInCompression, Agents, Children
<1> HIDE DEF open, forced
<1>5. /\ r1 \in Agents /\ r1.status = child[c].status /\ r1.open = open /\ r1.held = child[c].held
      /\ r1.failed = child[c].failed
      /\ r2 \in Agents /\ r2.status = child[c].status /\ r2.open = open /\ r2.held = child[c].held
      /\ r2.failed = child[c].failed
  BY <1>1, <1>2 DEF Agents
<1> HIDE DEF r1, r2, c
<1>6. PICK r \in Agents : /\ child' = [child EXCEPT ![c] = r]
                          /\ r.status = child[c].status /\ r.open = open /\ r.held = child[c].held
                          /\ r.failed = child[c].failed
  BY <1>4, <1>5
<1>7. Children' = Children
  BY <1>1, <1>6, ChildProps
<1>8. /\ stack' \in Seq(Frames) /\ Nested' /\ Popped
      /\ stack'[Len(stack) - 1].phase \in {"loop", "ran"}
      /\ stack'[Len(stack) - 1].saved = stack[Len(stack) - 1].saved
      /\ \A f \in 1..(Len(stack) - 1) : f # Len(stack) - 1 => stack'[f] = stack[f]
  BY <1>1, <1>3, <1>7, CallerProps DEF c
<1>9. /\ context' \in Nat /\ orders' \in Nat /\ registry' \subseteq Children /\ IsFiniteSet(registry')
      /\ timer' \in Nat
  BY <1>3 DEF TypeOK
<1>10. TypeOK' /\ Becomes(c, r.status, r.open, r.held, r.failed)
  BY <1>1, <1>6, <1>8, <1>9, BecomesTypes
<1>11. Becomes(c, child[c].status, open, child[c].held, child[c].failed)
  BY <1>6, <1>10
<1> QED BY <1>1, <1>3, <1>8, <1>10, <1>11 DEF c, open

LEMMA SpawnStep ==
  ASSUME TypeOK, NEW budget \in Budgets, NEW inherit \in BOOLEAN, Spawn(budget, inherit)
  PROVE  LET c == Len(child) + 1
         IN  /\ TypeOK' /\ Pushed(c, "spawn") /\ registry' = registry /\ (TimeKept => TimeKept')
             /\ c \notin Children /\ Children' = Children \cup {c}
             /\ child'[c].status = "running" /\ child'[c].open /\ ~child'[c].held
             /\ \A d \in Children : Same(d)
<1> DEFINE c == Len(child) + 1
           usage == IF inherit THEN Usage(Top.agent) ELSE Prompt
           start == Larger(0, budget - usage)
           r == [status |-> "running", open |-> TRUE, held |-> FALSE, parent |-> Top.agent,
                 depth |-> Depth(Top.agent) + 1, usage |-> usage, last |-> usage, granted |-> budget,
                 budget |-> start, least |-> start, forced |-> FALSE, failed |-> FALSE,
                 calls |-> 0, spent |-> 0, given |-> start, relieved |-> FALSE]
<1>1. /\ Top.phase = "block" /\ child' = Append(child, r) /\ stack' = Append(stack, Frame(c, "spawn"))
      /\ timer' = timer /\ registry' = registry /\ context' = context /\ orders' = orders
  BY DEF Spawn, InBlock, Running
<1>2. child \in Seq(Agents) /\ Top \in Frames /\ Top.agent \in Nat /\ context \in Nat
  BY TopProps DEF TypeOK, Frames
<1>3. Top.agent # Main => child[Top.agent] \in Agents
  BY TopProps
<1>4. usage \in Nat /\ Depth(Top.agent) + 1 \in Nat
  <2>1. Usage(Top.agent) \in Nat
    <3>1. Top.agent # Main => child[Top.agent].usage \in Nat
      BY <1>3 DEF Agents
    <3> QED BY <1>2, <3>1 DEF Usage
  <2>2. Depth(Top.agent) \in Nat
    <3>1. Top.agent # Main => child[Top.agent].depth \in Nat
      BY <1>3 DEF Agents
    <3>2. 0 \in Nat
      OBVIOUS
    <3> QED BY <3>1, <3>2 DEF Depth
  <2>3. Prompt \in Nat
    BY Constants
  <2> QED BY <2>1, <2>2, <2>3
<1>5. start \in Nat /\ budget \in Nat
  <2>1. budget \in Nat
    BY Constants
  <2> HIDE DEF usage
  <2>2. budget - usage \in Int
    BY <1>4, <2>1
  <2> QED BY <2>1, <2>2, Numbers
<1> HIDE DEF usage, start
<1>6. r \in Agents /\ r.status = "running" /\ r.open /\ ~r.held
  BY <1>2, <1>4, <1>5 DEF Agents, Statuses
<1> HIDE DEF r
<1>7. /\ child' \in Seq(Agents) /\ Len(child') = Len(child) + 1 /\ Len(child) \in Nat
      /\ \A d \in 1..Len(child) : child'[d] = child[d] /\ child'[c] = r
      /\ child'[c] = r
  BY <1>1, <1>2, <1>6, AppendProperties
<1>8. Children = 1..Len(child) /\ Children' = 1..Len(child')
  BY <1>2, <1>7, LenProperties DEF Children
<1>9. c \notin Children /\ Children' = Children \cup {c} /\ c \in Nat /\ Children \subseteq Children'
  BY <1>7, <1>8
<1>10. \A d \in Children : Same(d)
  BY <1>7, <1>8 DEF Same
<1> HIDE DEF c
<1>11. /\ stack' \in Seq(Frames) /\ Nested' /\ Pushed(c, "spawn")
       /\ stack'[Len(stack) + 1] = Frame(c, "spawn") /\ \A f \in 1..Len(stack) : stack'[f] = stack[f]
  <2>1. c \in Children' /\ timer' \in Nat
    BY <1>1, <1>9 DEF TypeOK
  <2> QED BY <1>1, <1>9, <2>1, PushNested
<1>12. TypeOK'
  BY <1>1, <1>7, <1>9, <1>11 DEF TypeOK
<1>13. TimeKept => TimeKept'
  BY <1>1, <1>11, PushTime DEF Pushed
<1> QED BY <1>1, <1>6, <1>7, <1>9, <1>10, <1>11, <1>12, <1>13 DEF c

LEMMA CloseStep ==
  ASSUME TypeOK, NEW c \in Children, Close(c)
  PROVE  /\ TypeOK' /\ Replaced /\ registry' = registry \ {c}
         /\ Becomes(c, "closed", FALSE, child[c].held, child[c].failed)
<1> DEFINE r == [child[c] EXCEPT !.status = "closed", !.open = FALSE]
<1>1. /\ stack' = stack /\ timer' = timer /\ context' = context /\ orders' = orders
      /\ registry' = registry \ {c} /\ child[c] \in Agents /\ child \in Seq(Agents)
  BY ChildrenProps DEF Close, TypeOK
<1>2. child' = [child EXCEPT ![c] = r]
  BY <1>1 DEF Close, Children, Agents
<1>3. r \in Agents /\ r.status = "closed" /\ r.open = FALSE /\ r.held = child[c].held
      /\ r.failed = child[c].failed
  BY <1>1 DEF Agents, Statuses
<1> HIDE DEF r
<1>4. Children' = Children
  BY <1>2, <1>3, ChildProps
<1>5. Nested' /\ Replaced
  BY <1>1, <1>4 DEF TypeOK, Nested, Top, Replaced, Alike
<1>6. registry' \subseteq Children /\ IsFiniteSet(registry')
  <2>1. registry \subseteq Children /\ IsFiniteSet(registry)
    BY DEF TypeOK
  <2> QED BY <1>1, <2>1, FS_Subset
<1>7. context' \in Nat /\ orders' \in Nat /\ timer' \in Nat /\ stack' \in Seq(Frames)
  BY <1>1 DEF TypeOK
<1>8. TypeOK' /\ Becomes(c, r.status, r.open, r.held, r.failed)
  BY <1>2, <1>3, <1>5, <1>6, <1>7, BecomesTypes
<1> QED BY <1>1, <1>3, <1>5, <1>8

LEMMA CollectStep ==
  ASSUME TypeOK, NEW c \in Children, Collect(c)
  PROVE  /\ TypeOK' /\ Replaced
         /\ registry' = IF Usable(c) THEN registry \ {c} ELSE registry
         /\ child[c].held /\ \A f \in 1..Len(stack) : stack[f].agent # c
         /\ Becomes(c, child[c].status, FALSE, FALSE, child[c].failed)
<1> DEFINE r == [child[c] EXCEPT !.held = FALSE, !.open = FALSE]
<1>1. /\ stack' = stack /\ timer' = timer /\ context' = context /\ orders' = orders
      /\ registry' = (IF Usable(c) THEN registry \ {c} ELSE registry)
      /\ child[c].held /\ \A f \in 1..Len(stack) : stack[f].agent # c
      /\ child[c] \in Agents /\ child \in Seq(Agents)
  BY ChildrenProps DEF Collect, TypeOK
<1>2. child' = [child EXCEPT ![c] = r]
  BY <1>1 DEF Collect, Children, Agents
<1>3. r \in Agents /\ r.status = child[c].status /\ r.open = FALSE /\ r.held = FALSE
      /\ r.failed = child[c].failed
  BY <1>1 DEF Agents
<1> HIDE DEF r
<1>4. Children' = Children
  BY <1>2, <1>3, ChildProps
<1>5. Nested' /\ Replaced
  BY <1>1, <1>4 DEF TypeOK, Nested, Top, Replaced, Alike
<1>6. registry' \subseteq Children /\ IsFiniteSet(registry')
  <2>1. registry \subseteq Children /\ IsFiniteSet(registry)
    BY DEF TypeOK
  <2>2. registry' \subseteq registry
    BY <1>1
  <2> QED BY <2>1, <2>2, FS_Subset
<1>7. context' \in Nat /\ orders' \in Nat /\ timer' \in Nat /\ stack' \in Seq(Frames)
  BY <1>1 DEF TypeOK
<1>8. TypeOK' /\ Becomes(c, r.status, r.open, r.held, r.failed)
  BY <1>2, <1>3, <1>5, <1>6, <1>7, BecomesTypes
<1> QED BY <1>1, <1>3, <1>5, <1>8

LEMMA StutterStep ==
  ASSUME TypeOK, UNCHANGED vars
  PROVE  TypeOK' /\ Quiet /\ Replaced
BY DEF vars, TypeOK, Nested, Top, Children, Quiet, Same, Replaced, Alike

LEMMA InitTypes ==
  ASSUME Init
  PROVE  TypeOK /\ Len(stack) = 1 /\ stack[1].phase = "loop" /\ Children = {} /\ registry = {}
<1> DEFINE g == [Frame(Main, "run") EXCEPT !.phase = "loop"]
<1>1. g \in Frames /\ g.agent = Main /\ g.op = "run" /\ g.phase = "loop"
  BY DEF Frame, Frames, Main, Ops, Phases
<1>2. stack = <<g>> /\ timer = 0 /\ child = <<>> /\ registry = {} /\ context \in Usages /\ orders = 0
  BY DEF Init
<1> HIDE DEF g
<1>3. stack \in Seq(Frames) /\ Len(stack) = 1 /\ stack[1] = g /\ stack # <<>>
  BY <1>1, <1>2
<1>4. child \in Seq(Agents) /\ Children = {} /\ IsFiniteSet(registry)
  <2>1. child \in Seq(Agents) /\ Len(child) = 0
    BY <1>2
  <2> QED BY <1>2, <2>1, LenProperties, FS_EmptySet DEF Children
<1>5. context \in Nat
  BY <1>2, Constants
<1>6. Nested
  BY <1>1, <1>2, <1>3 DEF Nested
<1> QED BY <1>1, <1>2, <1>3, <1>4, <1>5, <1>6 DEF TypeOK

LEMMA ChargedTime ==
  ASSUME TypeOK, TimeKept, NEW f \in Nat, Charged(f)
  PROVE  TimeKept'
<1> DEFINE n == Len(stack)
<1>1. n \in Nat \ {0} /\ Top = stack[n] /\ timer \in Nat
  BY TopProps DEF TypeOK
<1>2. /\ f \in 1..n /\ stack[f].phase = "block" /\ Len(stack') = n
      /\ \A h \in 1..n : h # f => stack'[h] = stack[h]
      /\ timer > 0 /\ timer' = timer - 1
      /\ f = n \/ (f = n - 1 /\ Top.phase = "compressing")
  BY DEF Charged
<1>3. stack[f] \in Frames
  BY <1>2 DEF TypeOK
<1>4. /\ stack'[f].used = stack[f].used + 1 /\ stack'[f].phase = "block"
      /\ stack'[f].saved = stack[f].saved /\ stack[f].used \in Nat
  BY <1>2, <1>3 DEF Charged, Frames
<1>5. \A h \in 1..n : stack'[h].phase = stack[h].phase /\ stack'[h].saved = stack[h].saved
  BY <1>2, <1>4
<1>6. \A h \in 1..(n - 1) : h + 1 \in 1..n
  BY <1>1
<1>7. \A h \in 1..(n - 1) : Remaining(h) = Left(stack[h + 1], timer)
                            /\ Remaining(h)' = Left(stack'[h + 1], timer')
  BY <1>1, <1>2, RemainingProps, RemainingNext
<1>8. Remaining(f) = timer /\ Remaining(f)' = timer'
  <2>1. CASE f = n
    BY <1>1, <1>2, <2>1, RemainingProps, RemainingNext
  <2>2. CASE f = n - 1 /\ Top.phase = "compressing"
    <3>1. f \in 1..(n - 1) /\ f + 1 = n
      BY <1>1, <1>2, <2>2
    <3> QED BY <1>1, <1>5, <1>6, <1>7, <2>2, <3>1 DEF Left
  <2> QED BY <1>2, <2>1, <2>2
<1>9. \A h \in 1..n : h # f /\ stack[h].phase = "block" => Remaining(h)' = Remaining(h)
  <2> SUFFICES ASSUME NEW h \in 1..n, h # f, stack[h].phase = "block"
               PROVE  Remaining(h)' = Remaining(h)
    OBVIOUS
  <2>1. h # n
    BY <1>1, <1>2
  <2>2. h \in 1..(n - 1)
    BY <1>1, <2>1
  <2>3. stack[h + 1].phase # "compressing"
    <3>1. h + 1 \in 1..(n - 1) \/ h + 1 = f
      BY <1>1, <1>2, <2>1, <2>2
    <3> QED BY <1>2, <3>1 DEF TypeOK, Nested
  <2> QED BY <1>5, <1>6, <1>7, <2>2, <2>3 DEF Left
<1> SUFFICES ASSUME NEW h \in 1..n, stack'[h].phase = "block"
             PROVE  stack'[h].used + Remaining(h)' = Timeout
  BY <1>2 DEF TimeKept
<1>10. stack[h].phase = "block" /\ stack[h].used + Remaining(h) = Timeout
  BY <1>5 DEF TimeKept
<1>11. CASE h = f
  BY <1>1, <1>2, <1>4, <1>8, <1>10, <1>11
<1>12. CASE h # f
  BY <1>2, <1>9, <1>10, <1>12
<1> QED BY <1>11, <1>12

\* The turns that may return.
LEMMA Returns ==
  ASSUME TypeOK, NEW answer,
         (answer \in {"none", "yielded"} /\ EndOfBudget(answer))
           \/ (answer \in {"ready", "ready but empty", "yielded"} /\ Answer(answer))
  PROVE  /\ Top.agent # Main /\ Top.phase # "compressing" /\ Return(answer)
         /\ answer \in {"none", "yielded", "ready", "ready but empty"}
<1>1. Top.phase \in {"loop", "stopped", "ran"} /\ Return(answer)
  BY DEF EndOfBudget, Answer, Running
<1>2. Top.agent # Main
  <2>1. CASE EndOfBudget(answer)
    BY <2>1 DEF EndOfBudget
  <2>2. CASE Answer(answer)
    BY <2>2, TopProps DEF Answer, Running
  <2> QED BY <2>1, <2>2
<1> QED BY <1>1, <1>2

LEMMA StepTypes ==
  ASSUME TypeOK, [Next]_vars
  PROVE  TypeOK' /\ (TimeKept => TimeKept')
<1>1. CASE UNCHANGED vars
  <2>1. TypeOK'
    BY <1>1, StutterStep
  <2> QED BY <1>1, <2>1 DEF vars, TimeKept, Remaining
<1>2. CASE Check \/ EndBlock \/ NextIteration
  BY <1>2, CheckStep, EndBlockStep, NextIterationStep
<1>3. CASE Tick
  <2>1. TypeOK' /\ \E f \in Nat : Charged(f)
    BY <1>3, TickStep
  <2> QED BY <2>1, ChargedTime
<1>4. CASE TurnRaises
  <2>1. /\ TypeOK' /\ Popped /\ timer' = Top.saved /\ Top.phase = "call"
        /\ \A f \in 1..(Len(stack) - 1) : stack'[f] = stack[f]
    BY <1>4, RaisesStep
  <2> QED BY <2>1, PopTime DEF Popped
<1>5. CASE AlarmEscapes \/ AlarmInCompression
  <2>1. /\ TypeOK' /\ Popped
        /\ stack'[Len(stack) - 1].phase \in {"loop", "ran"}
        /\ stack'[Len(stack) - 1].saved = stack[Len(stack) - 1].saved
        /\ \A f \in 1..(Len(stack) - 1) : f # Len(stack) - 1 => stack'[f] = stack[f]
    BY <1>5, EscapeStep
  <2> QED BY <2>1, EscapeTime DEF Popped
<1>6. CASE \E growth \in Growths : Call(growth)
  BY <1>6, CallStep
<1>7. ASSUME NEW answer,
             (answer \in {"none", "yielded"} /\ EndOfBudget(answer))
               \/ (answer \in {"ready", "ready but empty", "yielded"} /\ Answer(answer))
      PROVE  TypeOK' /\ (TimeKept => TimeKept')
  <2>1. /\ Top.agent # Main /\ Top.phase # "compressing" /\ Return(answer)
        /\ answer \in {"none", "yielded", "ready", "ready but empty"}
    BY <1>7, Returns
  <2>2. /\ TypeOK' /\ Popped /\ timer' = Top.saved
        /\ \A f \in 1..(Len(stack) - 1) : stack'[f] = stack[f]
    BY <2>1, ReturnStep
  <2> QED BY <2>1, <2>2, PopTime DEF Popped
<1>8. CASE \E budget \in Budgets, inherit \in BOOLEAN : Spawn(budget, inherit)
  BY <1>8, SpawnStep
<1>9. CASE \E smaller \in 0..100 : Enter(smaller)
  BY <1>9, EnterStep
<1>10. CASE \E c \in Children : \E op \in {"send", "summarize"} : Send(c, op)
  BY <1>10, SendStep
<1>11. ASSUME NEW c \in Children,
              (\E amount \in Amounts : ExtendBudget(c, amount)) \/ Close(c) \/ Collect(c)
       PROVE  TypeOK' /\ (TimeKept => TimeKept')
  <2>1. TypeOK'
    BY <1>11, ExtendStep, CloseStep, CollectStep
  <2>2. stack' = stack /\ timer' = timer
    BY <1>11 DEF ExtendBudget, Close, Collect
  <2> QED BY <2>1, <2>2 DEF TimeKept, Remaining
<1> QED BY <1>1, <1>2, <1>3, <1>4, <1>5, <1>6, <1>7, <1>8, <1>9, <1>10, <1>11 DEF Next

\* Types, and the shape of the stack: the main agent's turn is at the bottom,
\* every turn but the last is inside a block, and the timer only runs for a
\* block, the last turn's own or, while its context is compressed, its
\* caller's (the nesting of SpawnHandle.send within _exec_python_block).
THEOREM TypeCorrect == Spec => []TypeOK
<1>1. Init => TypeOK
  BY InitTypes
<1>2. TypeOK /\ [Next]_vars => TypeOK'
  BY StepTypes
<1> QED BY <1>1, <1>2, PTL DEF Spec

\* Through any nesting of turns, what a block has used and what it has left
\* make the timeout: _paused_parent_timer gives back what it put aside.
THEOREM TimeIsKept == Spec => []TimeKept
<1>1. Init => TypeOK /\ TimeKept
  <2> SUFFICES ASSUME Init
               PROVE  TypeOK /\ TimeKept
    OBVIOUS
  <2>1. TypeOK /\ Len(stack) = 1 /\ stack[1].phase = "loop"
    BY InitTypes
  <2>2. \A f \in 1..Len(stack) : stack[f].phase # "block"
    BY <2>1
  <2> QED BY <2>1, <2>2 DEF TimeKept
<1>2. (TypeOK /\ TimeKept) /\ [Next]_vars => (TypeOK /\ TimeKept)'
  BY StepTypes
<1> QED BY <1>1, <1>2, PTL DEF Spec

-----------------------------------------------------------------------------
(* Handles and their slots                                                 *)

\* The handle of a spawn that has not returned: nobody else can reach it.
Fresh(c) ==
  /\ child[c].status = "running" /\ child[c].open /\ ~child[c].held
  /\ c \notin registry

\* A handle that somebody could give an instruction to.
Known(c) == c \in registry \/ child[c].failed \/ ~Usable(c)

HandleOK(c) ==
  /\ child[c].status = "closed" => ~child[c].open
  /\ c \in registry => Usable(c)
  /\ child[c].held /\ Usable(c) => c \in registry \/ child[c].failed

\* A handle in the making belongs to one turn; the agents of all the others
\* are known, or were closed while they worked.
Making ==
  \A f \in 1..Len(stack) : stack[f].op = "spawn" =>
    /\ Fresh(stack[f].agent)
    /\ \A g \in 1..Len(stack) : stack[g].agent = stack[f].agent => g = f

Sending ==
  \A f \in 2..Len(stack) : stack[f].op # "spawn" => Known(stack[f].agent)

Handles ==
  /\ \A c \in Children : HandleOK(c)
  /\ Making /\ Sending
  /\ Cardinality(registry) <= MaxSpawns

\* What ClosedStays says of one step.
StaysClosed ==
  \A c \in Children : (child[c].status = "closed") =>
    /\ child'[c].status = "closed" /\ ~child'[c].open
    /\ c \notin registry'

LEMMA ActiveAreAll ==
  ASSUME TypeOK, Handles
  PROVE  Active = registry
<1>1. \A c \in registry : child[c].status # "closed"
  BY DEF TypeOK, Handles, HandleOK, Usable
<1> QED BY <1>1 DEF Active

\* The agents of the turns above the main agent's.
LEMMA AgentsOfTurns ==
  ASSUME TypeOK
  PROVE  /\ \A f \in 2..Len(stack) : stack[f].agent \in Children /\ f \in 1..Len(stack)
         /\ \A f \in 1..Len(stack) : stack[f].op = "spawn" => f \in 2..Len(stack)
<1>1. Len(stack) \in Nat /\ stack[1].op = "run"
  BY TopProps DEF TypeOK, Nested
<1>2. \A f \in 1..Len(stack) : f # 1 => f \in 2..Len(stack)
  BY <1>1
<1> QED BY <1>1, <1>2 DEF TypeOK, Nested

LEMMA SameHandle ==
  ASSUME NEW d \in Children, Same(d), d \in registry' <=> d \in registry
  PROVE  /\ Fresh(d) => Fresh(d)'
         /\ Known(d) => Known(d)'
         /\ HandleOK(d) => HandleOK(d)'
BY DEF Same, Fresh, Known, HandleOK, Usable

LEMMA QuietHandles ==
  ASSUME TypeOK, Handles, Quiet, Replaced
  PROVE  Handles' /\ StaysClosed
<1>1. /\ registry' = registry /\ Children' = Children
      /\ \A d \in Children : Same(d) /\ HandleOK(d) /\ (d \in registry' <=> d \in registry)
      /\ Len(stack') = Len(stack) /\ \A f \in 1..Len(stack) : Alike(f)
  BY DEF Quiet, Replaced, Handles
<1>2. \A d \in Children : HandleOK(d)'
  BY <1>1, SameHandle
<1>3. Making'
  BY <1>1, AgentsOfTurns, SameHandle DEF Handles, Making, Alike
<1>4. Sending'
  BY <1>1, AgentsOfTurns, SameHandle DEF Handles, Sending, Alike
<1>5. StaysClosed
  BY <1>1 DEF StaysClosed, Same, HandleOK, Usable
<1> QED BY <1>1, <1>2, <1>3, <1>4, <1>5 DEF Handles

\* A step after which c is another handle, and its agent is perhaps no longer
\* at work.
LEMMA ChangedHandle ==
  ASSUME TypeOK, Handles, Replaced \/ Popped, NEW c \in Children,
         Children' = Children, \A d \in Children : d # c => Same(d),
         \A d \in Children : d # c => (d \in registry' <=> d \in registry),
         HandleOK(c)', Cardinality(registry') <= MaxSpawns,
         child[c].status = "closed" => child'[c].status = "closed",
         \A f \in 2..Len(stack') : stack[f].agent = c => stack[f].op # "spawn" /\ Known(c)'
  PROVE  Handles' /\ StaysClosed
<1>1. /\ Len(stack) \in Nat /\ Len(stack') \in Nat /\ Len(stack') <= Len(stack)
      /\ \A f \in 1..Len(stack') : f \in 1..Len(stack) /\ Alike(f)
      /\ \A f \in 2..Len(stack') : f \in 2..Len(stack) /\ Alike(f) /\ stack[f].agent \in Children
  <2>1. Len(stack) \in Nat \ {0}
    BY TopProps
  <2>2. CASE Replaced
    <3>1. \A f \in 2..Len(stack) : f \in 1..Len(stack)
      BY <2>1
    <3> QED BY <2>1, <2>2, <3>1, AgentsOfTurns DEF Replaced
  <2>3. CASE Popped
    <3>1. /\ Len(stack') = Len(stack) - 1 /\ Len(stack') \in Nat
          /\ \A f \in 1..(Len(stack) - 1) : f \in 1..Len(stack)
          /\ \A f \in 2..(Len(stack) - 1) : f \in 2..Len(stack) /\ f \in 1..(Len(stack) - 1)
      BY <2>1, <2>3 DEF Popped
    <3> QED BY <2>1, <2>3, <3>1, AgentsOfTurns DEF Popped
  <2> QED BY <2>2, <2>3
<1>2. \A d \in Children : HandleOK(d)'
  BY SameHandle DEF Handles
<1>3. Making'
  <2> SUFFICES ASSUME NEW f \in 1..Len(stack'), stack'[f].op = "spawn"
               PROVE  /\ Fresh(stack[f].agent)'
                      /\ \A g \in 1..Len(stack') : stack'[g].agent = stack'[f].agent => g = f
    BY DEF Making
  <2>1. f \in 1..Len(stack) /\ stack[f].op = "spawn" /\ stack'[f].agent = stack[f].agent
    BY <1>1 DEF Alike
  <2>2. f \in 2..Len(stack')
    <3>1. f \in 2..Len(stack)
      BY <2>1, AgentsOfTurns
    <3> QED BY <1>1, <3>1
  <2>3. stack[f].agent \in Children /\ stack[f].agent # c
    BY <1>1, <2>1, <2>2
  <2>4. Fresh(stack[f].agent) /\ \A g \in 1..Len(stack) : stack[g].agent = stack[f].agent => g = f
    BY <2>1 DEF Handles, Making
  <2> DEFINE d == stack[f].agent
  <2>5. Same(d) /\ Fresh(d) /\ d \in Children /\ (d \in registry' <=> d \in registry)
    BY <2>3, <2>4
  <2>6. child'[d].status = "running" /\ child'[d].open /\ ~child'[d].held /\ d \notin registry'
    BY <2>5 DEF Same, Fresh
  <2>7. Fresh(stack[f].agent)'
    BY <2>1, <2>6 DEF Fresh
  <2> QED BY <1>1, <2>1, <2>4, <2>7 DEF Alike
<1>4. Sending'
  <2> SUFFICES ASSUME NEW f \in 2..Len(stack'), stack'[f].op # "spawn"
               PROVE  Known(stack[f].agent)'
    BY DEF Sending
  <2> DEFINE d == stack[f].agent
  <2>1. f \in 2..Len(stack) /\ stack[f].op # "spawn" /\ stack'[f].agent = d /\ d \in Children
    BY <1>1 DEF Alike
  <2>2. Known(d)
    BY <2>1 DEF Handles, Sending
  <2>3. d \in registry' \/ child'[d].failed \/ ~(child'[d].open /\ child'[d].status # "closed")
    <3>1. CASE d = c
      BY <3>1 DEF Known, Usable
    <3>2. CASE d # c
      BY <2>1, <2>2, <3>2 DEF Known, Usable, Same
    <3> QED BY <3>1, <3>2
  <2> HIDE DEF d
  <2> QED BY <2>1, <2>3 DEF Known, Usable
<1>5. StaysClosed
  <2> SUFFICES ASSUME NEW d \in Children, child[d].status = "closed"
               PROVE  child'[d].status = "closed" /\ ~child'[d].open /\ d \notin registry'
    BY DEF StaysClosed
  <2>1. child'[d].status = "closed"
    BY DEF Same
  <2>2. HandleOK(d)'
    BY <1>2
  <2> QED BY <2>1, <2>2 DEF HandleOK, Usable
<1> QED BY <1>2, <1>3, <1>4, <1>5 DEF Handles

LEMMA SendHandles ==
  ASSUME TypeOK, Handles, NEW c \in Children, NEW op \in {"send", "summarize"},
         Quiet, Pushed(c, op), Reachable(c), Usable(c)
  PROVE  Handles' /\ StaysClosed
<1>1. /\ registry' = registry /\ Children' = Children
      /\ \A d \in Children : Same(d) /\ HandleOK(d) /\ (d \in registry' <=> d \in registry)
      /\ Len(stack) \in Nat \ {0} /\ Len(stack') = Len(stack) + 1
      /\ \A f \in 1..Len(stack) : Alike(f)
      /\ stack'[Len(stack) + 1].agent = c /\ stack'[Len(stack) + 1].op = op
  BY TopProps DEF Quiet, Pushed, Handles
<1>2. \A d \in Children : HandleOK(d)'
  BY <1>1, SameHandle
<1>3. Known(c) /\ ~Fresh(c)
  BY <1>1 DEF Reachable, Found, HandleOK, Known, Fresh
<1>4. Making'
  <2> SUFFICES ASSUME NEW f \in 1..Len(stack'), stack'[f].op = "spawn"
               PROVE  /\ Fresh(stack[f].agent)'
                      /\ \A g \in 1..Len(stack') : stack'[g].agent = stack'[f].agent => g = f
    BY DEF Making
  <2>1. f \in 1..Len(stack)
    BY <1>1
  <2> DEFINE d == stack[f].agent
  <2>2. stack[f].op = "spawn" /\ stack'[f].agent = d
    BY <1>1, <2>1 DEF Alike
  <2>3. d \in Children /\ Fresh(d) /\ \A g \in 1..Len(stack) : stack[g].agent = d => g = f
    BY <2>1, <2>2, AgentsOfTurns DEF Handles, Making
  <2>4. d # c
    BY <1>3, <2>3
  <2>5. child'[d].status = "running" /\ child'[d].open /\ ~child'[d].held /\ d \notin registry'
    BY <1>1, <2>3 DEF Same, Fresh
  <2>6. Fresh(stack[f].agent)'
    BY <2>2, <2>5 DEF Fresh
  <2> HIDE DEF d
  <2>7. \A g \in 1..Len(stack') : stack'[g].agent = d => g = f
    <3>1. \A g \in 1..Len(stack') : g \in 1..Len(stack) \/ g = Len(stack) + 1
      BY <1>1
    <3> QED BY <1>1, <2>3, <2>4, <3>1 DEF Alike
  <2> QED BY <2>2, <2>6, <2>7
<1>5. Sending'
  <2> SUFFICES ASSUME NEW f \in 2..Len(stack'), stack'[f].op # "spawn"
               PROVE  Known(stack[f].agent)'
    BY DEF Sending
  <2> DEFINE d == stack'[f].agent
  <2>1. d \in Children /\ Known(d)
    <3>1. f = Len(stack) + 1 \/ f \in 2..Len(stack)
      BY <1>1
    <3>2. CASE f = Len(stack) + 1
      BY <1>1, <1>3, <3>2
    <3>3. CASE f \in 2..Len(stack)
      BY <1>1, <3>3, AgentsOfTurns DEF Alike, Handles, Sending
    <3> QED BY <3>1, <3>2, <3>3
  <2>2. d \in registry' \/ child'[d].failed \/ ~(child'[d].open /\ child'[d].status # "closed")
    BY <1>1, <2>1 DEF Known, Usable, Same
  <2> QED BY <2>2 DEF Known, Usable
<1>6. StaysClosed
  BY <1>1 DEF StaysClosed, Same, HandleOK, Usable
<1> QED BY <1>1, <1>2, <1>4, <1>5, <1>6 DEF Handles

LEMMA SpawnHandles ==
  ASSUME TypeOK, TypeOK', Handles, NEW c, Pushed(c, "spawn"), registry' = registry,
         c \notin Children, Children' = Children \cup {c},
         child'[c].status = "running" /\ child'[c].open /\ ~child'[c].held,
         \A d \in Children : Same(d)
  PROVE  Handles' /\ StaysClosed
<1>1. /\ \A d \in Children : HandleOK(d) /\ (d \in registry' <=> d \in registry)
      /\ c \notin registry
      /\ Len(stack) \in Nat \ {0} /\ Len(stack') = Len(stack) + 1
      /\ \A f \in 1..Len(stack) : Alike(f)
      /\ stack'[Len(stack) + 1].agent = c /\ stack'[Len(stack) + 1].op = "spawn"
  BY TopProps DEF Pushed, Handles, TypeOK
<1>2. \A d \in Children' : HandleOK(d)'
  <2>1. HandleOK(c)'
    BY <1>1 DEF HandleOK, Usable
  <2>2. \A d \in Children : HandleOK(d)'
    BY <1>1, SameHandle
  <2> QED BY <2>1, <2>2
<1>3. \A f \in 1..Len(stack) : stack[f].agent # c
  <2>1. stack[1].agent = Main /\ \A f \in 1..Len(stack) : f = 1 \/ f \in 2..Len(stack)
    BY <1>1 DEF TypeOK, Nested
  <2>2. c # Main
    <3>1. child' \in Seq(Agents) /\ c \in DOMAIN child'
      BY DEF TypeOK, Children
    <3>2. DOMAIN child' = 1..Len(child')
      BY <3>1, LenProperties
    <3>3. c # 0
      BY <3>1, <3>2
    <3> QED BY <3>3 DEF Main
  <2> QED BY <2>1, <2>2, AgentsOfTurns
<1>4. Making'
  <2> SUFFICES ASSUME NEW f \in 1..Len(stack'), stack'[f].op = "spawn"
               PROVE  /\ Fresh(stack[f].agent)'
                      /\ \A g \in 1..Len(stack') : stack'[g].agent = stack'[f].agent => g = f
    BY DEF Making
  <2>1. \A g \in 1..Len(stack') : g \in 1..Len(stack) \/ g = Len(stack) + 1
    BY <1>1
  <2>2. CASE f = Len(stack) + 1
    <3>1. Fresh(stack[f].agent)'
      BY <1>1, <2>2 DEF Fresh
    <3>2. \A g \in 1..Len(stack') : stack'[g].agent = c => g = f
      BY <1>1, <1>3, <2>1, <2>2 DEF Alike
    <3> QED BY <1>1, <2>2, <3>1, <3>2
  <2>3. CASE f \in 1..Len(stack)
    <3> DEFINE d == stack[f].agent
    <3>1. stack[f].op = "spawn" /\ stack'[f].agent = d
      BY <1>1, <2>3 DEF Alike
    <3>2. d \in Children /\ Fresh(d) /\ \A g \in 1..Len(stack) : stack[g].agent = d => g = f
      BY <2>3, <3>1, AgentsOfTurns DEF Handles, Making
    <3>3. child'[d].status = "running" /\ child'[d].open /\ ~child'[d].held /\ d \notin registry'
      BY <1>1, <3>2 DEF Same, Fresh
    <3>4. Fresh(stack[f].agent)'
      BY <3>1, <3>3 DEF Fresh
    <3>5. d # c
      BY <3>2
    <3> HIDE DEF d
    <3>6. \A g \in 1..Len(stack') : stack'[g].agent = d => g = f
      BY <1>1, <2>1, <3>2, <3>5 DEF Alike
    <3> QED BY <3>1, <3>4, <3>6
  <2> QED BY <2>1, <2>2, <2>3
<1>5. Sending'
  <2> SUFFICES ASSUME NEW f \in 2..Len(stack'), stack'[f].op # "spawn"
               PROVE  Known(stack[f].agent)'
    BY DEF Sending
  <2> DEFINE d == stack'[f].agent
  <2>1. f \in 2..Len(stack)
    BY <1>1
  <2>2. d \in Children /\ Known(d)
    BY <1>1, <2>1, AgentsOfTurns DEF Alike, Handles, Sending
  <2>3. d \in registry' \/ child'[d].failed \/ ~(child'[d].open /\ child'[d].status # "closed")
    BY <1>1, <2>2 DEF Known, Usable, Same
  <2> QED BY <2>3 DEF Known, Usable
<1>6. StaysClosed
  BY <1>1 DEF StaysClosed, Same, HandleOK, Usable
<1> QED BY <1>2, <1>4, <1>5, <1>6 DEF Handles

\* The child whose turn is the last: in the making, or known.
LEMMA TopHandle ==
  ASSUME TypeOK, Handles, Top.agent # Main
  PROVE  LET c == Top.agent
         IN  /\ c \in Children /\ HandleOK(c) /\ child[c] \in Agents
             /\ Top.op = "spawn" => Fresh(c)
             /\ Top.op # "spawn" => Known(c)
             /\ \A f \in 2..(Len(stack) - 1) : stack[f].agent = c => stack[f].op # "spawn" /\ Top.op # "spawn"
<1> DEFINE n == Len(stack)
           c == Top.agent
<1>1. n \in Nat /\ n >= 2 /\ Top = stack[n] /\ c \in Children /\ HandleOK(c) /\ child[c] \in Agents
  BY TopProps DEF Handles
<1>2. n \in 2..n /\ n \in 1..n /\ \A f \in 2..(n - 1) : f \in 1..n /\ f # n
  BY <1>1
<1>3. Top.op = "spawn" => Fresh(c) /\ \A g \in 1..n : stack[g].agent = c => g = n
  BY <1>1, <1>2 DEF Handles, Making
<1>4. Top.op # "spawn" => Known(c)
  BY <1>1, <1>2 DEF Handles, Sending
<1>5. \A f \in 2..(n - 1) : stack[f].agent = c => stack[f].op # "spawn"
  BY <1>1, <1>2 DEF Handles, Making
<1> QED BY <1>1, <1>2, <1>3, <1>4, <1>5

LEMMA OneMore ==
  ASSUME NEW m \in Nat, NEW n \in Nat, n < m
  PROVE  n + 1 <= m
OBVIOUS

LEMMA ReturnHandles ==
  ASSUME TypeOK, Handles, Top.agent # Main,
         NEW answer \in {"none", "yielded", "ready", "ready but empty"}, Return(answer)
  PROVE  Handles' /\ StaysClosed
<1>0. PICK c, status : c = Top.agent /\ status = Judged(c, answer)
  OBVIOUS
<1>1. /\ Popped /\ c \in Children /\ Len(stack') = Len(stack) - 1
      /\ \/ /\ Top.op # "spawn" /\ registry' = registry
            /\ Becomes(c, status, child[c].open, child[c].held, child[c].failed)
         \/ /\ Top.op = "spawn" /\ Registers /\ registry' = registry \cup {c}
            /\ Becomes(c, status, child[c].open, TRUE, child[c].failed)
         \/ /\ Top.op = "spawn" /\ registry' = registry
            /\ Becomes(c, status, FALSE, child[c].held, child[c].failed)
  BY <1>0, ReturnStep DEF Popped
<1>2. /\ HandleOK(c)
      /\ Top.op = "spawn" => Fresh(c)
      /\ Top.op # "spawn" => Known(c)
      /\ \A f \in 2..(Len(stack) - 1) : stack[f].agent = c => stack[f].op # "spawn" /\ Top.op # "spawn"
  BY <1>0, TopHandle
<1>3. /\ ~child[c].open => status = child[c].status
      /\ child[c].open => status # "closed"
  BY <1>0, <1>1, JudgedType
<1>4. /\ registry \subseteq Children /\ IsFiniteSet(registry) /\ Cardinality(registry) <= MaxSpawns
      /\ Active = registry
  BY ActiveAreAll DEF TypeOK, Handles
<1>5. child[c].status = "closed" => status = "closed"
  BY <1>2, <1>3 DEF HandleOK
<1>6. CASE Top.op # "spawn" /\ registry' = registry
             /\ Becomes(c, status, child[c].open, child[c].held, child[c].failed)
  <2>1. HandleOK(c)' /\ Known(c)'
    BY <1>2, <1>3, <1>6 DEF Becomes, HandleOK, Known, Usable
  <2> QED BY <1>1, <1>2, <1>4, <1>5, <1>6, <2>1, ChangedHandle DEF Becomes
<1>7. CASE Top.op = "spawn" /\ Registers /\ registry' = registry \cup {c}
             /\ Becomes(c, status, child[c].open, TRUE, child[c].failed)
  <2>1. Fresh(c) /\ HandleOK(c)'
    BY <1>2, <1>3, <1>7 DEF Becomes, HandleOK, Fresh, Usable
  <2>2. Cardinality(registry') <= MaxSpawns
    <3>1. Cardinality(registry \cup {c}) = Cardinality(registry) + 1
      BY <1>4, <2>1, FS_AddElement DEF Fresh
    <3>2. Cardinality(registry) < MaxSpawns /\ Cardinality(registry) \in Nat
      BY <1>4, <1>7, FS_CardinalityType DEF Registers
    <3>3. Cardinality(registry') = Cardinality(registry) + 1
      BY <1>7, <3>1
    <3> QED BY <3>2, <3>3, OneMore, Constants
  <2> QED BY <1>1, <1>2, <1>5, <1>7, <2>1, <2>2, ChangedHandle DEF Becomes
<1>8. CASE Top.op = "spawn" /\ registry' = registry
             /\ Becomes(c, status, FALSE, child[c].held, child[c].failed)
  <2>1. HandleOK(c)'
    BY <1>2, <1>3, <1>8 DEF Becomes, HandleOK, Fresh, Usable
  <2> QED BY <1>1, <1>2, <1>4, <1>5, <1>8, <2>1, ChangedHandle DEF Becomes
<1> QED BY <1>1, <1>6, <1>7, <1>8

LEMMA RaisesHandles ==
  ASSUME TypeOK, Handles, TurnRaises
  PROVE  Handles' /\ StaysClosed
<1>0. PICK c : c = Top.agent
  OBVIOUS
<1>1. /\ Popped /\ c \in Children /\ registry' = registry /\ Len(stack') = Len(stack) - 1
      /\ \/ Top.op = "spawn" /\ Becomes(c, "error", child[c].open, TRUE, TRUE)
         \/ Top.op # "spawn" /\ Becomes(c, child[c].status, child[c].open, TRUE, child[c].failed)
  BY <1>0, RaisesStep DEF Popped
<1>2. /\ HandleOK(c)
      /\ Top.op = "spawn" => Fresh(c)
      /\ Top.op # "spawn" => Known(c)
      /\ \A f \in 2..(Len(stack) - 1) : stack[f].agent = c => stack[f].op # "spawn" /\ Top.op # "spawn"
  BY <1>0, TopHandle DEF TurnRaises
<1>3. Cardinality(registry) <= MaxSpawns
  BY DEF Handles
<1>4. CASE Top.op = "spawn" /\ Becomes(c, "error", child[c].open, TRUE, TRUE)
  <2>1. HandleOK(c)' /\ child[c].status # "closed"
    BY <1>1, <1>2, <1>4 DEF Becomes, HandleOK, Fresh, Usable
  <2> QED BY <1>1, <1>2, <1>3, <1>4, <2>1, ChangedHandle DEF Becomes
<1>5. CASE Top.op # "spawn" /\ Becomes(c, child[c].status, child[c].open, TRUE, child[c].failed)
  <2>1. HandleOK(c)' /\ Known(c)'
    BY <1>1, <1>2, <1>5 DEF Becomes, HandleOK, Known, Usable
  <2> QED BY <1>1, <1>2, <1>3, <1>5, <2>1, ChangedHandle DEF Becomes
<1> QED BY <1>1, <1>4, <1>5

LEMMA EscapeHandles ==
  ASSUME TypeOK, Handles, AlarmEscapes \/ AlarmInCompression
  PROVE  Handles' /\ StaysClosed
<1>0. PICK c : c = Top.agent
  OBVIOUS
<1>1. /\ Popped /\ c \in Children /\ registry' = registry /\ Len(stack') = Len(stack) - 1
      /\ Becomes(c, child[c].status, child[c].open /\ Top.op # "spawn", child[c].held, child[c].failed)
  BY <1>0, EscapeStep DEF Popped
<1>2. c # Main
  BY <1>0, TopProps DEF AlarmEscapes, AlarmInCompression, Running
<1>3. /\ HandleOK(c)
      /\ Top.op = "spawn" => Fresh(c)
      /\ Top.op # "spawn" => Known(c)
      /\ \A f \in 2..(Len(stack) - 1) : stack[f].agent = c => stack[f].op # "spawn" /\ Top.op # "spawn"
  BY <1>0, <1>2, TopHandle
<1>4. Cardinality(registry) <= MaxSpawns
  BY DEF Handles
<1>5. HandleOK(c)' /\ (Top.op # "spawn" => Known(c)')
  BY <1>1, <1>3 DEF Becomes, HandleOK, Fresh, Known, Usable
<1> QED BY <1>1, <1>3, <1>4, <1>5, ChangedHandle DEF Becomes

LEMMA CloseHandles ==
  ASSUME TypeOK, Handles, NEW c \in Children, Close(c)
  PROVE  Handles' /\ StaysClosed
<1>1. /\ Replaced /\ registry' = registry \ {c} /\ Len(stack') = Len(stack)
      /\ Becomes(c, "closed", FALSE, child[c].held, child[c].failed)
  BY CloseStep DEF Replaced
<1>2. ~Fresh(c)
  BY DEF Close, Reachable, Found, Fresh
<1>3. \A f \in 2..Len(stack) : stack[f].agent = c => stack[f].op # "spawn"
  BY <1>2, AgentsOfTurns DEF Handles, Making
<1>4. HandleOK(c)' /\ Known(c)'
  BY <1>1 DEF Becomes, HandleOK, Known, Usable
<1>5. Cardinality(registry') <= MaxSpawns
  <2>1. IsFiniteSet(registry) /\ Cardinality(registry) <= MaxSpawns /\ registry' \subseteq registry
    BY <1>1 DEF TypeOK, Handles
  <2>2. /\ Cardinality(registry') <= Cardinality(registry) /\ IsFiniteSet(registry')
        /\ Cardinality(registry) \in Nat /\ Cardinality(registry') \in Nat
    BY <2>1, FS_Subset, FS_CardinalityType
  <2> QED BY <2>1, <2>2, Constants
<1> QED BY <1>1, <1>3, <1>4, <1>5, ChangedHandle DEF Becomes

LEMMA CollectHandles ==
  ASSUME TypeOK, Handles, NEW c \in Children, Collect(c)
  PROVE  Handles' /\ StaysClosed
<1>1. /\ Replaced /\ registry' = (IF Usable(c) THEN registry \ {c} ELSE registry)
      /\ Len(stack') = Len(stack) /\ \A f \in 1..Len(stack) : stack[f].agent # c
      /\ Becomes(c, child[c].status, FALSE, FALSE, child[c].failed) /\ HandleOK(c)
  BY CollectStep DEF Replaced, Handles
<1>2. \A f \in 2..Len(stack) : stack[f].agent # c
  BY <1>1, AgentsOfTurns
<1>3. HandleOK(c)'
  BY <1>1 DEF Becomes, HandleOK, Usable
<1>4. Cardinality(registry') <= MaxSpawns
  <2>1. IsFiniteSet(registry) /\ Cardinality(registry) <= MaxSpawns /\ registry' \subseteq registry
    BY <1>1 DEF TypeOK, Handles
  <2>2. /\ Cardinality(registry') <= Cardinality(registry) /\ IsFiniteSet(registry')
        /\ Cardinality(registry) \in Nat /\ Cardinality(registry') \in Nat
    BY <2>1, FS_Subset, FS_CardinalityType
  <2> QED BY <2>1, <2>2, Constants
<1> QED BY <1>1, <1>2, <1>3, <1>4, ChangedHandle DEF Becomes

LEMMA StepHandles ==
  ASSUME TypeOK, Handles, [Next]_vars
  PROVE  Handles' /\ StaysClosed
<1>1. CASE UNCHANGED vars
  BY <1>1, StutterStep, QuietHandles
<1>2. CASE Check \/ EndBlock \/ NextIteration \/ Tick
  BY <1>2, CheckStep, EndBlockStep, NextIterationStep, TickStep, QuietHandles
<1>3. CASE TurnRaises \/ AlarmEscapes \/ AlarmInCompression
  BY <1>3, RaisesHandles, EscapeHandles
<1>4. CASE \E growth \in Growths : Call(growth)
  BY <1>4, CallStep, QuietHandles
<1>5. ASSUME NEW answer,
             (answer \in {"none", "yielded"} /\ EndOfBudget(answer))
               \/ (answer \in {"ready", "ready but empty", "yielded"} /\ Answer(answer))
      PROVE  Handles' /\ StaysClosed
  BY <1>5, Returns, ReturnHandles
<1>6. ASSUME NEW budget \in Budgets, NEW inherit \in BOOLEAN, Spawn(budget, inherit)
      PROVE  Handles' /\ StaysClosed
  BY <1>6, SpawnStep, SpawnHandles
<1>7. CASE \E smaller \in 0..100 : Enter(smaller)
  BY <1>7, EnterStep, QuietHandles
<1>8. CASE \E c \in Children : \E op \in {"send", "summarize"} : Send(c, op)
  BY <1>8, SendStep, SendHandles
<1>9. CASE \E c \in Children : \/ \E amount \in Amounts : ExtendBudget(c, amount)
                               \/ Close(c) \/ Collect(c)
  BY <1>9, ExtendStep, QuietHandles, CloseHandles, CollectHandles
<1> QED BY <1>1, <1>2, <1>3, <1>4, <1>5, <1>6, <1>7, <1>8, <1>9 DEF Next

LEMMA InvariantHandles == Spec => [](TypeOK /\ Handles)
<1>1. Init => TypeOK /\ Handles
  <2> SUFFICES ASSUME Init
               PROVE  TypeOK /\ Handles
    OBVIOUS
  <2>1. TypeOK /\ Len(stack) = 1 /\ Children = {} /\ registry = {}
    BY InitTypes
  <2>2. Cardinality(registry) <= MaxSpawns
    BY <2>1, FS_EmptySet, Constants
  <2>3. Making /\ Sending
    BY <2>1, AgentsOfTurns DEF Making, Sending
  <2> QED BY <2>1, <2>2, <2>3 DEF Handles
<1>2. (TypeOK /\ Handles) /\ [Next]_vars => (TypeOK /\ Handles)'
  BY StepTypes, StepHandles
<1> QED BY <1>1, <1>2, PTL DEF Spec

\* However spawns nest and fail, no more handles than MAX_SPAWNS are
\* registered, and every handle that the program can still use holds one of
\* the slots, but for the handle of a spawn that raised (SpawnRegistry.register
\* looks at the limit again when the child's first turn is over).
THEOREM SlotsAreHeld == Spec => []SlotsHeld
<1>1. TypeOK /\ Handles => SlotsHeld
  BY DEF Handles, HandleOK, SlotsHeld
<1> QED BY <1>1, InvariantHandles, PTL

\* A closed handle stays closed, without an agent and without a slot, also
\* when the child was at work and its turn returns (_update_status).
THEOREM ClosedForGood == Spec => ClosedStays
<1>1. (TypeOK /\ Handles) /\ [Next]_vars => [StaysClosed]_vars
  BY StepHandles
<1>2. Spec => [][StaysClosed]_vars
  BY <1>1, InvariantHandles, PTL DEF Spec
<1>3. StaysClosed <=> \A c \in Children : (child[c].status = "closed") =>
                        /\ child'[c].status = "closed" /\ ~child'[c].open
                        /\ c \notin registry'
  BY DEF StaysClosed
<1> QED BY <1>2, <1>3, PTL DEF ClosedStays

=============================================================================
