--------------------------- MODULE LLMCallProofs ---------------------------
(***************************************************************************)
(* Proofs about a call of the model: what the recoveries, the prunings and *)
(* the cleanup do to the price of a list of any length, and from that the  *)
(* properties of LLMCall that relate the context, the token anchor and the *)
(* list the provider was sent.                                             *)
(***************************************************************************)
EXTENDS LLMCall, SequenceTheorems, WellFoundedInduction, TLAPS

-----------------------------------------------------------------------------
(* Numbers.  Induction goes by the least counterexample.                   *)

\* A set of numbers that is not empty has a least member.
LEMMA Least ==
  ASSUME NEW S \in SUBSET Nat, S # {}
  PROVE  \E m \in S : \A k \in S : m <= k
<1> DEFINE Lt == {p \in Nat \X Nat : p[1] < p[2]}
<1>1. IsWellFoundedOn(Lt, Nat)
  BY NatLessThanWellFounded DEF OpToRel
<1>2. \A x, y \in Nat : <<y, x>> \in Lt <=> y < x
  OBVIOUS
<1> HIDE DEF Lt
<1>3. \E x \in S : \A y \in S : ~ (<<y, x>> \in Lt)
  BY <1>1, WFMin
<1>4. PICK x \in S : \A y \in S : ~ (<<y, x>> \in Lt)
  BY <1>3
<1>5. x \in Nat /\ \A y \in S : y \in Nat /\ ~(y < x)
  BY <1>2, <1>4
<1> QED BY <1>4, <1>5

\* A set with 0 and the successor of each of its members has every number.
LEMMA Induction ==
  ASSUME NEW S, 0 \in S, \A k \in Nat : k \in S => k + 1 \in S
  PROVE  \A k \in Nat : k \in S
<1> DEFINE Bad == {k \in Nat : k \notin S}
<1> SUFFICES ASSUME Bad # {} PROVE FALSE
  OBVIOUS
<1>1. Bad \in SUBSET Nat /\ \A k \in Nat : k \in Bad <=> k \notin S
  OBVIOUS
<1> HIDE DEF Bad
<1>2. PICK m \in Bad : \A k \in Bad : m <= k
  BY <1>1, Least
<1>3. m \in Nat /\ m # 0
  BY <1>1
<1>4. m - 1 \in Nat /\ ~(m <= m - 1) /\ (m - 1) + 1 = m
  BY <1>3
<1>5. m - 1 \in S
  BY <1>1, <1>2, <1>4
<1> QED BY <1>1, <1>4, <1>5

\* The largest of some positions of a list.
LEMMA Largest ==
  ASSUME NEW n \in Nat, NEW S \in SUBSET (1..n), S # {}
  PROVE  Max(S) \in S /\ \A k \in S : k <= Max(S)
<1> DEFINE Mirror == {k \in Nat : \E i \in S : k = n - i}
<1>1. Mirror \in SUBSET Nat /\ Mirror # {} /\ \A i \in S : n - i \in Mirror
  <2>1. \A i \in S : n - i \in Nat
    OBVIOUS
  <2> QED BY <2>1
<1>2. \A k \in Mirror : \E i \in S : k = n - i
  OBVIOUS
<1> HIDE DEF Mirror
<1>3. PICK k \in Mirror : \A j \in Mirror : k <= j
  BY <1>1, Least
<1>4. PICK i \in S : k = n - i
  BY <1>2
<1>5. \A j \in S : n - i <= n - j
  BY <1>1, <1>3, <1>4
<1>6. \A j \in S : i >= j
  BY <1>5
<1> QED BY <1>6 DEF Max

-----------------------------------------------------------------------------
(* Exact, the price of a list                                              *)

LEMMA PriceNat ==
  ASSUME NEW m \in Message
  PROVE  Price(m) \in Nat /\ Price(m) >= m.size
<1>1. m.images * ImageSize \in Nat
  BY PriceAssumption DEF Message
<1> QED BY <1>1 DEF Price, Message

\* f adds the prices of s up, one message after the other.
IsSum(f, s, n) == f = [i \in 0..n |-> IF i = 0 THEN 0 ELSE f[i - 1] + Price(s[i])]

LEMMA SumExists ==
  ASSUME NEW s
  PROVE  \A n \in Nat : \E f : IsSum(f, s, n)
<1> DEFINE S == {n \in Nat : \E f : IsSum(f, s, n)}
<1>1. 0 \in S
  <2>1. IsSum([i \in 0..0 |-> 0], s, 0)
    BY DEF IsSum
  <2> QED BY <2>1
<1>2. ASSUME NEW k \in Nat, k \in S PROVE k + 1 \in S
  <2>1. PICK f : IsSum(f, s, k)
    BY <1>2
  <2> DEFINE g == [i \in 0..(k + 1) |-> IF i = k + 1 THEN f[k] + Price(s[k + 1]) ELSE f[i]]
  <2>2. \A i \in 0..k : f[i] = IF i = 0 THEN 0 ELSE f[i - 1] + Price(s[i])
    BY <2>1 DEF IsSum
  <2>3. \A i \in 0..(k + 1) : g[i] = IF i = 0 THEN 0 ELSE g[i - 1] + Price(s[i])
    BY <2>2
  <2>4. g = [i \in 0..(k + 1) |-> g[i]]
    OBVIOUS
  <2>5. IsSum(g, s, k + 1)
    <3> HIDE DEF g
    <3> QED BY <2>3, <2>4 DEF IsSum
  <2> QED BY <2>5
<1> HIDE DEF S
<1>3. \A k \in Nat : k \in S
  BY <1>1, <1>2, Induction
<1> QED BY <1>3 DEF S

LEMMA SumUnique ==
  ASSUME NEW s, NEW n \in Nat, NEW f, NEW g, IsSum(f, s, n), IsSum(g, s, n)
  PROVE  f = g
<1> DEFINE S == {k \in Nat : k <= n => f[k] = g[k]}
<1>1. \A i \in 0..n : f[i] = IF i = 0 THEN 0 ELSE f[i - 1] + Price(s[i])
  BY DEF IsSum
<1>2. \A i \in 0..n : g[i] = IF i = 0 THEN 0 ELSE g[i - 1] + Price(s[i])
  BY DEF IsSum
<1>3. 0 \in S
  BY <1>1, <1>2
<1>4. \A k \in Nat : k \in S => k + 1 \in S
  BY <1>1, <1>2
<1> HIDE DEF S
<1>5. \A k \in Nat : k \in S
  BY <1>3, <1>4, Induction
<1>6. \A k \in 0..n : f[k] = g[k]
  BY <1>5 DEF S
<1>7. f = [i \in 0..n |-> f[i]] /\ g = [i \in 0..n |-> g[i]]
  BY DEF IsSum
<1> QED BY <1>6, <1>7

LEMMA ExactIsSum ==
  ASSUME NEW s \in Seq(Message), NEW f, IsSum(f, s, Len(s))
  PROVE  Exact(s) = f[Len(s)]
<1>1. IsSum(CHOOSE g : IsSum(g, s, Len(s)), s, Len(s))
  OBVIOUS
<1>2. Exact(s) = (CHOOSE g : IsSum(g, s, Len(s)))[Len(s)]
  BY DEF Exact, IsSum
<1>3. Len(s) \in Nat
  OBVIOUS
<1>4. (CHOOSE g : IsSum(g, s, Len(s))) = f
  BY <1>1, <1>3, SumUnique
<1> QED BY <1>2, <1>4

LEMMA ExactEmpty == Exact(<<>>) = 0
<1>1. IsSum([i \in 0..0 |-> 0], <<>>, Len(<<>>))
  BY DEF IsSum
<1>2. <<>> \in Seq(Message)
  OBVIOUS
<1> QED BY <1>1, <1>2, ExactIsSum

LEMMA ExactAppend ==
  ASSUME NEW s \in Seq(Message), NEW m \in Message
  PROVE  Exact(Append(s, m)) = Exact(s) + Price(m)
<1> DEFINE t == Append(s, m)
           n == Len(s)
<1>1. t \in Seq(Message) /\ Len(t) = n + 1 /\ n \in Nat /\ t[n + 1] = m
      /\ \A i \in 1..n : t[i] = s[i]
  OBVIOUS
<1> HIDE DEF t
<1>2. PICK f : IsSum(f, t, n + 1)
  BY <1>1, SumExists
<1>3. \A i \in 0..(n + 1) : f[i] = IF i = 0 THEN 0 ELSE f[i - 1] + Price(t[i])
  BY <1>2 DEF IsSum
<1> DEFINE g == [i \in 0..n |-> f[i]]
<1>4. \A i \in 0..n : g[i] = IF i = 0 THEN 0 ELSE g[i - 1] + Price(s[i])
  BY <1>1, <1>3
<1>5. g = [i \in 0..n |-> g[i]] /\ g[n] = f[n]
  BY <1>1
<1> HIDE DEF g
<1>6. IsSum(g, s, Len(s))
  BY <1>4, <1>5 DEF IsSum
<1>7. Exact(s) = f[n]
  BY <1>5, <1>6, ExactIsSum
<1>8. Exact(t) = f[n + 1]
  BY <1>1, <1>2, ExactIsSum
<1>9. f[n + 1] = f[n] + Price(m)
  BY <1>1, <1>3
<1> QED BY <1>7, <1>8, <1>9 DEF t

\* A list that is not empty is another one and its last message.
LEMMA LastSplits ==
  ASSUME NEW s \in Seq(Message), s # <<>>
  PROVE  \E c \in Seq(Message), m \in Message :
           /\ s = Append(c, m) /\ Len(s) = Len(c) + 1 /\ s[Len(s)] = m
           /\ \A i \in 1..Len(c) : s[i] = c[i]
<1>1. PICK k \in Nat : Len(s) = k + 1
  <2>1. Len(s) - 1 \in Nat /\ Len(s) = (Len(s) - 1) + 1
    OBVIOUS
  <2> QED BY <2>1
<1>2. PICK f : f = SubSeq(s, 1, k)
  OBVIOUS
<1>3. f \in Seq(Message) /\ Len(f) = k /\ s[k + 1] \in Message /\ \A i \in 1..k : f[i] = s[i]
  BY <1>1, <1>2
<1>4. Append(f, s[k + 1]) \in Seq(Message) /\ Len(Append(f, s[k + 1])) = Len(s)
      /\ \A i \in 1..Len(s) : Append(f, s[k + 1])[i] = s[i]
  BY <1>1, <1>3
<1>5. s = Append(f, s[k + 1])
  BY <1>4, SeqEqual
<1>6. Len(s) = Len(f) + 1 /\ s[Len(s)] = s[k + 1] /\ \A i \in 1..Len(f) : s[i] = f[i]
  BY <1>1, <1>3
<1> QED BY <1>3, <1>5, <1>6

LEMMA ExactNat ==
  ASSUME NEW s \in Seq(Message)
  PROVE  Exact(s) \in Nat
<1> DEFINE S == {k \in Nat : \A t \in Seq(Message) : Len(t) = k => Exact(t) \in Nat}
<1>1. 0 \in S
  <2>1. \A t \in Seq(Message) : Len(t) = 0 => t = <<>>
    OBVIOUS
  <2> QED BY <2>1, ExactEmpty
<1>2. ASSUME NEW k \in Nat, k \in S PROVE k + 1 \in S
  <2> SUFFICES ASSUME NEW t \in Seq(Message), Len(t) = k + 1 PROVE Exact(t) \in Nat
    OBVIOUS
  <2>1. PICK c \in Seq(Message), m \in Message : t = Append(c, m) /\ Len(t) = Len(c) + 1
    <3>1. t # <<>>
      BY <1>2
    <3> QED BY <3>1, LastSplits
  <2>2. Exact(c) \in Nat
    BY <1>2, <2>1
  <2>3. Exact(Append(c, m)) = Exact(c) + Price(m)
    BY <2>1, ExactAppend
  <2> QED BY <2>1, <2>2, <2>3, PriceNat
<1> HIDE DEF S
<1>3. \A k \in Nat : k \in S
  BY <1>1, <1>2, Induction
<1> QED BY <1>3 DEF S

LEMMA ExactConcat ==
  ASSUME NEW s \in Seq(Message), NEW t \in Seq(Message)
  PROVE  Exact(s \o t) = Exact(s) + Exact(t)
<1> DEFINE S == {k \in Nat : \A u \in Seq(Message) : Len(u) = k =>
                   Exact(s \o u) = Exact(s) + Exact(u)}
<1>1. 0 \in S
  <2>1. \A u \in Seq(Message) : Len(u) = 0 => u = <<>> /\ s \o u = s
    BY ConcatEmptySeq
  <2>2. Exact(s) + 0 = Exact(s)
    BY ExactNat
  <2> QED BY <2>1, <2>2, ExactEmpty
<1>2. ASSUME NEW k \in Nat, k \in S PROVE k + 1 \in S
  <2> SUFFICES ASSUME NEW u \in Seq(Message), Len(u) = k + 1
               PROVE  Exact(s \o u) = Exact(s) + Exact(u)
    OBVIOUS
  <2>1. PICK c \in Seq(Message), m \in Message : u = Append(c, m) /\ Len(u) = Len(c) + 1
    <3>1. u # <<>>
      BY <1>2
    <3> QED BY <3>1, LastSplits
  <2>2. s \o Append(c, m) = Append(s \o c, m)
    BY <2>1
  <2>3. Exact(s \o c) = Exact(s) + Exact(c)
    BY <1>2, <2>1
  <2>4. Exact(Append(s \o c, m)) = Exact(s \o c) + Price(m)
    <3>1. s \o c \in Seq(Message)
      BY <2>1, ConcatProperties
    <3> QED BY <2>1, <3>1, ExactAppend
  <2>5. Exact(Append(c, m)) = Exact(c) + Price(m)
    BY <2>1, ExactAppend
  <2>6. Exact(s) \in Nat /\ Exact(c) \in Nat /\ Price(m) \in Nat
    BY <2>1, ExactNat, PriceNat
  <2> QED BY <2>1, <2>2, <2>3, <2>4, <2>5, <2>6
<1> HIDE DEF S
<1>3. \A k \in Nat : k \in S
  BY <1>1, <1>2, Induction
<1> QED BY <1>3 DEF S

\* A list whose messages cost no more costs no more.
LEMMA ExactMonotone ==
  ASSUME NEW s \in Seq(Message), NEW t \in Seq(Message), Len(s) = Len(t),
         \A i \in 1..Len(s) : Price(s[i]) <= Price(t[i])
  PROVE  Exact(s) <= Exact(t)
<1> DEFINE S == {k \in Nat : \A a, b \in Seq(Message) :
                   Len(a) = k /\ Len(b) = k /\ (\A i \in 1..k : Price(a[i]) <= Price(b[i]))
                     => Exact(a) <= Exact(b)}
<1>1. 0 \in S
  <2>1. \A u \in Seq(Message) : Len(u) = 0 => u = <<>>
    OBVIOUS
  <2> QED BY <2>1, ExactEmpty
<1>2. ASSUME NEW k \in Nat, k \in S PROVE k + 1 \in S
  <2> SUFFICES ASSUME NEW a \in Seq(Message), NEW b \in Seq(Message), Len(a) = k + 1, Len(b) = k + 1,
                      \A i \in 1..(k + 1) : Price(a[i]) <= Price(b[i])
               PROVE  Exact(a) <= Exact(b)
    OBVIOUS
  <2>1. PICK c \in Seq(Message), m \in Message :
          a = Append(c, m) /\ Len(a) = Len(c) + 1 /\ a[Len(a)] = m /\ \A i \in 1..Len(c) : a[i] = c[i]
    <3>1. a # <<>>
      BY <1>2
    <3> QED BY <3>1, LastSplits
  <2>2. PICK d \in Seq(Message), n \in Message :
          b = Append(d, n) /\ Len(b) = Len(d) + 1 /\ b[Len(b)] = n /\ \A i \in 1..Len(d) : b[i] = d[i]
    <3>1. b # <<>>
      BY <1>2
    <3> QED BY <3>1, LastSplits
  <2>3. Exact(c) <= Exact(d) /\ Price(m) <= Price(n)
    <3>1. Len(c) = k /\ Len(d) = k /\ k + 1 \in 1..(k + 1) /\ k \in Nat
      BY <1>2, <2>1, <2>2
    <3>2. \A i \in 1..k : i \in 1..(k + 1) /\ Price(c[i]) <= Price(d[i])
      BY <2>1, <2>2, <3>1
    <3> QED BY <1>2, <2>1, <2>2, <3>1, <3>2
  <2>4. Exact(a) = Exact(c) + Price(m) /\ Exact(b) = Exact(d) + Price(n)
    BY <2>1, <2>2, ExactAppend
  <2>5. Exact(c) \in Nat /\ Exact(d) \in Nat /\ Price(m) \in Nat /\ Price(n) \in Nat
    BY <2>1, <2>2, ExactNat, PriceNat
  <2> QED BY <2>3, <2>4, <2>5
<1> HIDE DEF S
<1>3. \A k \in Nat : k \in S
  BY <1>1, <1>2, Induction
<1> QED BY <1>3 DEF S

\* Lists whose messages cost the same cost the same.
LEMMA ExactEqual ==
  ASSUME NEW s \in Seq(Message), NEW t \in Seq(Message), Len(s) = Len(t),
         \A i \in 1..Len(s) : Price(s[i]) = Price(t[i])
  PROVE  Exact(s) = Exact(t)
<1>1. \A i \in 1..Len(s) : s[i] \in Message /\ t[i] \in Message
  OBVIOUS
<1>2. Exact(s) <= Exact(t) /\ Exact(t) <= Exact(s)
  BY <1>1, PriceNat, ExactMonotone
<1> QED BY <1>2, ExactNat

-----------------------------------------------------------------------------
(* cleanup_synthetic                                                       *)

\* f keeps the messages of s that were not injected, one after the other.
IsKept(f, s, n) ==
  f = [i \in 0..n |-> IF i = 0 THEN <<>>
                      ELSE IF s[i].kind = "inject" THEN f[i - 1] ELSE Append(f[i - 1], s[i])]

LEMMA KeptExists ==
  ASSUME NEW s
  PROVE  \A n \in Nat : \E f : IsKept(f, s, n)
<1> DEFINE S == {n \in Nat : \E f : IsKept(f, s, n)}
<1>1. 0 \in S
  <2>1. IsKept([i \in 0..0 |-> <<>>], s, 0)
    BY DEF IsKept
  <2> QED BY <2>1
<1>2. ASSUME NEW k \in Nat, k \in S PROVE k + 1 \in S
  <2>1. PICK f : IsKept(f, s, k)
    BY <1>2
  <2> DEFINE g == [i \in 0..(k + 1) |->
                     IF i = k + 1
                     THEN IF s[k + 1].kind = "inject" THEN f[k] ELSE Append(f[k], s[k + 1])
                     ELSE f[i]]
  <2>2. \A i \in 0..k : f[i] = IF i = 0 THEN <<>>
          ELSE IF s[i].kind = "inject" THEN f[i - 1] ELSE Append(f[i - 1], s[i])
    BY <2>1 DEF IsKept
  <2>3. \A i \in 0..(k + 1) : g[i] = IF i = 0 THEN <<>>
          ELSE IF s[i].kind = "inject" THEN g[i - 1] ELSE Append(g[i - 1], s[i])
    BY <2>2
  <2>4. g = [i \in 0..(k + 1) |-> g[i]]
    OBVIOUS
  <2>5. IsKept(g, s, k + 1)
    <3> HIDE DEF g
    <3> QED BY <2>3, <2>4 DEF IsKept
  <2> QED BY <2>5
<1> HIDE DEF S
<1>3. \A k \in Nat : k \in S
  BY <1>1, <1>2, Induction
<1> QED BY <1>3 DEF S

LEMMA KeptUnique ==
  ASSUME NEW s, NEW n \in Nat, NEW f, NEW g, IsKept(f, s, n), IsKept(g, s, n)
  PROVE  f = g
<1> DEFINE S == {k \in Nat : k <= n => f[k] = g[k]}
<1>1. \A i \in 0..n : f[i] = IF i = 0 THEN <<>>
        ELSE IF s[i].kind = "inject" THEN f[i - 1] ELSE Append(f[i - 1], s[i])
  BY DEF IsKept
<1>2. \A i \in 0..n : g[i] = IF i = 0 THEN <<>>
        ELSE IF s[i].kind = "inject" THEN g[i - 1] ELSE Append(g[i - 1], s[i])
  BY DEF IsKept
<1>3. 0 \in S
  BY <1>1, <1>2
<1>4. \A k \in Nat : k \in S => k + 1 \in S
  BY <1>1, <1>2
<1> HIDE DEF S
<1>5. \A k \in Nat : k \in S
  BY <1>3, <1>4, Induction
<1>6. \A k \in 0..n : f[k] = g[k]
  BY <1>5 DEF S
<1>7. f = [i \in 0..n |-> f[i]] /\ g = [i \in 0..n |-> g[i]]
  BY DEF IsKept
<1> QED BY <1>6, <1>7

LEMMA CleanupIsKept ==
  ASSUME NEW s \in Seq(Message), NEW f, IsKept(f, s, Len(s))
  PROVE  Cleanup(s) = f[Len(s)]
<1>1. IsKept(CHOOSE g : IsKept(g, s, Len(s)), s, Len(s))
  OBVIOUS
<1>2. Cleanup(s) = (CHOOSE g : IsKept(g, s, Len(s)))[Len(s)]
  BY DEF Cleanup, IsKept
<1>3. Len(s) \in Nat
  OBVIOUS
<1>4. (CHOOSE g : IsKept(g, s, Len(s))) = f
  BY <1>1, <1>3, KeptUnique
<1> QED BY <1>2, <1>4

LEMMA CleanupEmpty == Cleanup(<<>>) = <<>>
<1>1. IsKept([i \in 0..0 |-> <<>>], <<>>, Len(<<>>))
  BY DEF IsKept
<1>2. <<>> \in Seq(Message)
  OBVIOUS
<1> QED BY <1>1, <1>2, CleanupIsKept

LEMMA CleanupAppend ==
  ASSUME NEW s \in Seq(Message), NEW m \in Message
  PROVE  Cleanup(Append(s, m)) =
           IF m.kind = "inject" THEN Cleanup(s) ELSE Append(Cleanup(s), m)
<1> DEFINE t == Append(s, m)
           n == Len(s)
<1>1. t \in Seq(Message) /\ Len(t) = n + 1 /\ n \in Nat /\ t[n + 1] = m
      /\ \A i \in 1..n : t[i] = s[i]
  OBVIOUS
<1> HIDE DEF t
<1>2. PICK f : IsKept(f, t, n + 1)
  BY <1>1, KeptExists
<1>3. \A i \in 0..(n + 1) : f[i] = IF i = 0 THEN <<>>
        ELSE IF t[i].kind = "inject" THEN f[i - 1] ELSE Append(f[i - 1], t[i])
  BY <1>2 DEF IsKept
<1> DEFINE g == [i \in 0..n |-> f[i]]
<1>4. \A i \in 0..n : g[i] = IF i = 0 THEN <<>>
        ELSE IF s[i].kind = "inject" THEN g[i - 1] ELSE Append(g[i - 1], s[i])
  BY <1>1, <1>3
<1>5. g = [i \in 0..n |-> g[i]] /\ g[n] = f[n]
  BY <1>1
<1> HIDE DEF g
<1>6. IsKept(g, s, Len(s))
  BY <1>4, <1>5 DEF IsKept
<1>7. Cleanup(s) = f[n]
  BY <1>5, <1>6, CleanupIsKept
<1>8. Cleanup(t) = f[n + 1]
  BY <1>1, <1>2, CleanupIsKept
<1>9. f[n + 1] = IF m.kind = "inject" THEN f[n] ELSE Append(f[n], m)
  BY <1>1, <1>3
<1> QED BY <1>7, <1>8, <1>9 DEF t

LEMMA CleanupType ==
  ASSUME NEW s \in Seq(Message)
  PROVE  Cleanup(s) \in Seq(Message)
<1> DEFINE S == {k \in Nat : \A t \in Seq(Message) : Len(t) = k => Cleanup(t) \in Seq(Message)}
<1>1. 0 \in S
  <2>1. \A t \in Seq(Message) : Len(t) = 0 => t = <<>>
    OBVIOUS
  <2>2. <<>> \in Seq(Message)
    OBVIOUS
  <2> QED BY <2>1, <2>2, CleanupEmpty
<1>2. ASSUME NEW k \in Nat, k \in S PROVE k + 1 \in S
  <2> SUFFICES ASSUME NEW t \in Seq(Message), Len(t) = k + 1 PROVE Cleanup(t) \in Seq(Message)
    OBVIOUS
  <2>1. PICK c \in Seq(Message), m \in Message : t = Append(c, m) /\ Len(t) = Len(c) + 1
    <3>1. t # <<>>
      BY <1>2
    <3> QED BY <3>1, LastSplits
  <2>2. Cleanup(c) \in Seq(Message)
    BY <1>2, <2>1
  <2>3. Append(Cleanup(c), m) \in Seq(Message)
    BY <2>1, <2>2, AppendProperties
  <2> QED BY <2>1, <2>2, <2>3, CleanupAppend
<1> HIDE DEF S
<1>3. \A k \in Nat : k \in S
  BY <1>1, <1>2, Induction
<1> QED BY <1>3 DEF S

-----------------------------------------------------------------------------
(* The copy that goes out                                                  *)

LEMMA Prepared ==
  ASSUME NEW s \in Seq(Message)
  PROVE  /\ Prepare(s) \in Seq(Message) /\ Len(Prepare(s)) = Len(s)
         /\ \A i \in 1..Len(s) : /\ Prepare(s)[i] = [s[i] EXCEPT !.summary = FALSE]
                                 /\ Price(Prepare(s)[i]) = Price(s[i])
<1>1. \A m \in Message : [m EXCEPT !.summary = FALSE] \in Message
                         /\ Price([m EXCEPT !.summary = FALSE]) = Price(m)
  BY DEF Message, Price
<1>2. \A i \in 1..Len(s) : s[i] \in Message
  OBVIOUS
<1>3. Prepare(s) = [i \in 1..Len(s) |-> [s[i] EXCEPT !.summary = FALSE]]
  BY DEF Prepare, Map
<1> QED BY <1>1, <1>2, <1>3

LEMMA PrepareAppend ==
  ASSUME NEW s \in Seq(Message), NEW m \in Message
  PROVE  Prepare(Append(s, m)) = Append(Prepare(s), [m EXCEPT !.summary = FALSE])
<1> DEFINE a == Append(s, m)
           b == Append(Prepare(s), [m EXCEPT !.summary = FALSE])
<1>1. a \in Seq(Message) /\ Len(a) = Len(s) + 1 /\ a[Len(s) + 1] = m
      /\ \A i \in 1..Len(s) : a[i] = s[i]
  OBVIOUS
<1>2. [m EXCEPT !.summary = FALSE] \in Message
  BY DEF Message
<1>3. b \in Seq(Message) /\ Len(b) = Len(s) + 1 /\ b[Len(s) + 1] = [m EXCEPT !.summary = FALSE]
      /\ \A i \in 1..Len(s) : b[i] = Prepare(s)[i]
  BY <1>2, Prepared
<1> HIDE DEF a, b
<1>4. \A i \in 1..Len(s) : b[i] = [s[i] EXCEPT !.summary = FALSE]
  BY <1>3, Prepared
<1>5. \A i \in 1..Len(a) : Prepare(a)[i] = b[i]
  <2> SUFFICES ASSUME NEW i \in 1..Len(a) PROVE Prepare(a)[i] = b[i]
    OBVIOUS
  <2>1. Prepare(a)[i] = [a[i] EXCEPT !.summary = FALSE]
    BY <1>1, Prepared
  <2>2. i \in 1..Len(s) \/ i = Len(s) + 1
    BY <1>1
  <2> QED BY <1>1, <1>3, <1>4, <2>1, <2>2
<1>6. Prepare(a) \in Seq(Message) /\ Len(Prepare(a)) = Len(b)
  BY <1>1, <1>3, Prepared
<1>7. Prepare(a) = b
  BY <1>1, <1>3, <1>5, <1>6, SeqEqual
<1> QED BY <1>7 DEF a, b

\* Cleaning and preparing commute: it does not matter that the context is
\* cleaned after it was sent.
LEMMA PrepareCleanup ==
  ASSUME NEW s \in Seq(Message)
  PROVE  Prepare(Cleanup(s)) = Cleanup(Prepare(s))
<1> DEFINE S == {k \in Nat : \A t \in Seq(Message) :
                   Len(t) = k => Prepare(Cleanup(t)) = Cleanup(Prepare(t))}
<1>1. 0 \in S
  <2>1. \A t \in Seq(Message) : Len(t) = 0 => t = <<>>
    OBVIOUS
  <2>2. <<>> \in Seq(Message)
    OBVIOUS
  <2>3. Prepare(<<>>) = <<>>
    BY <2>1, <2>2, Prepared
  <2> QED BY <2>1, <2>3, CleanupEmpty
<1>2. ASSUME NEW k \in Nat, k \in S PROVE k + 1 \in S
  <2> SUFFICES ASSUME NEW t \in Seq(Message), Len(t) = k + 1
               PROVE  Prepare(Cleanup(t)) = Cleanup(Prepare(t))
    OBVIOUS
  <2>1. PICK c \in Seq(Message), m \in Message : t = Append(c, m) /\ Len(t) = Len(c) + 1
    <3>1. t # <<>>
      BY <1>2
    <3> QED BY <3>1, LastSplits
  <2>2. Prepare(Cleanup(c)) = Cleanup(Prepare(c))
    BY <1>2, <2>1
  <2> DEFINE p == [m EXCEPT !.summary = FALSE]
  <2>3. p \in Message /\ p.kind = m.kind
    BY <2>1 DEF Message
  <2>4. Prepare(t) = Append(Prepare(c), p) /\ Prepare(c) \in Seq(Message)
    BY <2>1, Prepared, PrepareAppend
  <2>5. Cleanup(c) \in Seq(Message)
    BY <2>1, CleanupType
  <2>6. Prepare(Append(Cleanup(c), m)) = Append(Prepare(Cleanup(c)), p)
    BY <2>1, <2>5, PrepareAppend
  <2> HIDE DEF p
  <2>7. Cleanup(t) = IF m.kind = "inject" THEN Cleanup(c) ELSE Append(Cleanup(c), m)
    BY <2>1, CleanupAppend
  <2>8. Cleanup(Append(Prepare(c), p)) =
          IF p.kind = "inject" THEN Cleanup(Prepare(c)) ELSE Append(Cleanup(Prepare(c)), p)
    BY <2>3, <2>4, CleanupAppend
  <2> QED BY <2>2, <2>3, <2>4, <2>6, <2>7, <2>8
<1> HIDE DEF S
<1>3. \A k \in Nat : k \in S
  BY <1>1, <1>2, Induction
<1> QED BY <1>3 DEF S

-----------------------------------------------------------------------------
(* The live count                                                          *)

Anchors == [count : Nat, tokens : Nat] \cup {NoAnchor}

\* s has as many messages as t, and none of them costs more.
Cheaper(s, t) == Len(s) = Len(t) /\ \A i \in 1..Len(s) : Price(s[i]) <= Price(t[i])

LEMMA EstimateNat ==
  ASSUME NEW s \in Seq(Message)
  PROVE  Estimate(s) \in Nat
<1>1. Exact(s) \in Nat /\ Len(s) \in Nat /\ Overhead \in Nat
  BY ExactNat, PriceAssumption
<1>2. Overhead * Len(s) \in Nat
  BY <1>1
<1> QED BY <1>1, <1>2 DEF Estimate

LEMMA EstimateConcat ==
  ASSUME NEW s \in Seq(Message), NEW t \in Seq(Message)
  PROVE  Estimate(s \o t) = Estimate(s) + Estimate(t)
<1>1. Len(s \o t) = Len(s) + Len(t) /\ Len(s) \in Nat /\ Len(t) \in Nat /\ Overhead \in Nat
  BY ConcatProperties, PriceAssumption
<1>2. Overhead * Len(s \o t) = Overhead * Len(s) + Overhead * Len(t)
      /\ Overhead * Len(s) \in Nat /\ Overhead * Len(t) \in Nat
  BY <1>1
<1>3. Exact(s \o t) = Exact(s) + Exact(t) /\ Exact(s) \in Nat /\ Exact(t) \in Nat
  BY ExactConcat, ExactNat
<1> QED BY <1>2, <1>3 DEF Estimate

LEMMA EstimateMonotone ==
  ASSUME NEW s \in Seq(Message), NEW t \in Seq(Message), Cheaper(s, t)
  PROVE  Estimate(s) <= Estimate(t)
<1>1. Exact(s) <= Exact(t) /\ Len(s) = Len(t)
  BY ExactMonotone DEF Cheaper
<1>2. Exact(s) \in Nat /\ Exact(t) \in Nat /\ Overhead * Len(s) \in Int
  BY ExactNat, PriceAssumption
<1> QED BY <1>1, <1>2 DEF Estimate

\* Part of a list of messages.
LEMMA Part ==
  ASSUME NEW s \in Seq(Message), NEW a \in 1..(Len(s) + 1), NEW b \in (a - 1)..Len(s)
  PROVE  /\ SubSeq(s, a, b) \in Seq(Message) /\ Len(SubSeq(s, a, b)) = b - a + 1
         /\ \A i \in 1..(b - a + 1) : SubSeq(s, a, b)[i] = s[a + i - 1]
<1>1. a \in Int /\ b \in Int /\ a >= 1 /\ b <= Len(s) /\ b >= a - 1 /\ Len(s) \in Nat
  OBVIOUS
<1>2. \A i \in a..b : s[i] \in Message
  BY <1>1, ElementOfSeq
<1>3. SubSeq(s, a, b) \in Seq(Message)
      /\ Len(SubSeq(s, a, b)) = (IF a <= b THEN b - a + 1 ELSE 0)
      /\ \A i \in 1..(b - a + 1) : SubSeq(s, a, b)[i] = s[a + i - 1]
  BY <1>1, <1>2, SubSeqProperties
<1> QED BY <1>1, <1>3

\* The live count of a list with cheaper messages is not higher.
LEMMA LiveMonotone ==
  ASSUME NEW s \in Seq(Message), NEW t \in Seq(Message), Cheaper(s, t), NEW a \in Anchors
  PROVE  /\ Anchored(a, s) <=> Anchored(a, t)
         /\ LiveTokens(a, s) \in Nat /\ LiveTokens(a, s) <= LiveTokens(a, t)
<1>1. Len(s) = Len(t) /\ Len(s) \in Nat
  BY DEF Cheaper
<1>2. Anchored(a, s) <=> Anchored(a, t)
  BY <1>1 DEF Anchored
<1>3. CASE Anchored(a, s)
  <2>1. a.count \in Nat /\ a.tokens \in Nat /\ a.count <= Len(s)
    BY <1>3 DEF Anchored, Anchors
  <2> DEFINE u == SubSeq(s, a.count + 1, Len(s))
             v == SubSeq(t, a.count + 1, Len(t))
             n == Len(s) - a.count
  <2>2. n \in Nat /\ a.count + 1 \in 1..(Len(s) + 1) /\ Len(s) \in ((a.count + 1) - 1)..Len(s)
        /\ \A i \in 1..n : (a.count + 1) + i - 1 \in 1..Len(s)
    BY <1>1, <2>1
  <2>3. u \in Seq(Message) /\ Len(u) = Len(s) - (a.count + 1) + 1
        /\ \A i \in 1..(Len(s) - (a.count + 1) + 1) : u[i] = s[(a.count + 1) + i - 1]
    BY <2>2, Part
  <2>4. v \in Seq(Message) /\ Len(v) = Len(s) - (a.count + 1) + 1
        /\ \A i \in 1..(Len(s) - (a.count + 1) + 1) : v[i] = t[(a.count + 1) + i - 1]
    <3>1. a.count + 1 \in 1..(Len(t) + 1) /\ Len(t) \in ((a.count + 1) - 1)..Len(t)
      BY <1>1, <2>2
    <3>2. v \in Seq(Message) /\ Len(v) = Len(t) - (a.count + 1) + 1
          /\ \A i \in 1..(Len(t) - (a.count + 1) + 1) : v[i] = t[(a.count + 1) + i - 1]
      BY <3>1, Part
    <3> HIDE DEF v
    <3> QED BY <1>1, <3>2
  <2>5. Len(s) - (a.count + 1) + 1 = n
    BY <1>1, <2>1
  <2>6. Cheaper(u, v)
    <3> HIDE DEF u, v, n
    <3>1. \A i \in 1..n : Price(u[i]) <= Price(v[i])
      BY <1>1, <2>2, <2>3, <2>4, <2>5 DEF Cheaper
    <3> QED BY <2>3, <2>4, <2>5, <3>1 DEF Cheaper
  <2>7. Estimate(u) <= Estimate(v) /\ Estimate(u) \in Nat /\ Estimate(v) \in Nat
    BY <2>3, <2>4, <2>6, EstimateMonotone, EstimateNat
  <2>8. LiveTokens(a, s) = a.tokens + Estimate(u) /\ LiveTokens(a, t) = a.tokens + Estimate(v)
    BY <1>2, <1>3 DEF LiveTokens
  <2> HIDE DEF u, v, n
  <2> QED BY <1>2, <2>1, <2>7, <2>8
<1>4. CASE ~Anchored(a, s)
  <2>1. LiveTokens(a, s) = Estimate(s) /\ LiveTokens(a, t) = Estimate(t)
    BY <1>2, <1>4 DEF LiveTokens
  <2> QED BY <1>2, <2>1, EstimateMonotone, EstimateNat
<1> QED BY <1>3, <1>4

\* The guard's limit, and whether it lets a list pass unpruned.
Limit == (95 * Window) \div 100

Fits(a, list) == Anchored(a, list) => LiveTokens(a, list) < Limit

LEMMA LimitInt == Limit \in Int
  BY CallAssumption DEF Limit

LEMMA FitsMonotone ==
  ASSUME NEW s \in Seq(Message), NEW t \in Seq(Message), Cheaper(s, t), NEW a \in Anchors,
         Fits(a, t)
  PROVE  Fits(a, s)
<1>1. (Anchored(a, s) <=> Anchored(a, t))
      /\ LiveTokens(a, s) \in Nat /\ LiveTokens(a, s) <= LiveTokens(a, t)
  BY LiveMonotone
<1>2. Cheaper(t, t)
  <2>1. \A i \in 1..Len(t) : t[i] \in Message
    OBVIOUS
  <2> QED BY <2>1, PriceNat DEF Cheaper
<1>3. LiveTokens(a, t) \in Nat
  BY <1>2, LiveMonotone
<1> QED BY <1>1, <1>3, LimitInt DEF Fits

LEMMA PrepareCheaper ==
  ASSUME NEW s \in Seq(Message)
  PROVE  Cheaper(s, Prepare(s)) /\ Cheaper(Prepare(s), s)
<1>1. \A i \in 1..Len(s) : Price(s[i]) \in Nat
  <2>1. \A i \in 1..Len(s) : s[i] \in Message
    OBVIOUS
  <2> QED BY <2>1, PriceNat
<1>2. Len(Prepare(s)) = Len(s) /\ \A i \in 1..Len(s) : Price(Prepare(s)[i]) = Price(s[i])
  BY Prepared
<1> QED BY <1>1, <1>2 DEF Cheaper

\* Preparation changes nothing that the guard looks at.
LEMMA FitsPrepared ==
  ASSUME NEW s \in Seq(Message), NEW a \in Anchors
  PROVE  Fits(a, Prepare(s)) <=> Fits(a, s)
<1>1. Prepare(s) \in Seq(Message) /\ Cheaper(s, Prepare(s)) /\ Cheaper(Prepare(s), s)
  BY Prepared, PrepareCheaper
<1> QED BY <1>1, FitsMonotone

-----------------------------------------------------------------------------
(* The recoveries.  None makes a list of messages dearer to the guard.     *)

\* The system prompt is at the head of the list.
Headed(list) == list # <<>> /\ list[1].role = "system" /\ list[1].kind = "plain"

LEMMA ReplacedPrice ==
  ASSUME NEW m \in Message
  PROVE  /\ Replaced(m) \in Message /\ Replaced(m).role = m.role /\ Replaced(m).kind = "plain"
         /\ Price(m) >= 1 => Price(Replaced(m)) <= Price(m)
<1>1. Replaced(m) \in Message /\ Replaced(m).role = m.role /\ Replaced(m).kind = "plain"
      /\ Replaced(m).size = 1 /\ Replaced(m).images = 0
  BY DEF Replaced, Message
<1>2. Price(Replaced(m)) = 1
  BY <1>1, PriceAssumption DEF Price
<1> QED BY <1>1, <1>2, PriceNat

LEMMA RedactedProps ==
  ASSUME NEW s \in Seq(Message)
  PROVE  /\ Redacted(s) \in Seq(Message) /\ Cheaper(Redacted(s), s)
         /\ Headed(s) => Headed(Redacted(s))
<1> DEFINE new(m) == IF Oversized(s, m) THEN Replaced(m) ELSE m
<1>1. ASSUME NEW m \in Message
      PROVE  new(m) \in Message /\ Price(new(m)) <= Price(m) /\ new(m).role = m.role
             /\ (m.kind = "plain" => new(m).kind = "plain")
  <2>1. Exact(s) \in Nat /\ Exact(s) \div 5 \in Nat
    BY ExactNat
  <2>2. Price(m) \in Nat
    BY <1>1, PriceNat
  <2>3. Oversized(s, m) => Price(m) >= 1
    BY <2>1, <2>2 DEF Oversized
  <2> QED BY <1>1, <2>2, <2>3, ReplacedPrice
<1>2. Redacted(s) = [i \in 1..Len(s) |-> new(s[i])] /\ Len(s) \in Nat
  BY DEF Redacted, Map
<1>3. \A i \in 1..Len(s) : s[i] \in Message
  OBVIOUS
<1> HIDE DEF new
<1>4. Redacted(s) \in Seq(Message) /\ Len(Redacted(s)) = Len(s)
      /\ \A i \in 1..Len(s) : Redacted(s)[i] = new(s[i])
  BY <1>1, <1>2, <1>3
<1>5. Cheaper(Redacted(s), s)
  BY <1>1, <1>3, <1>4 DEF Cheaper
<1>6. Headed(s) => Headed(Redacted(s))
  BY <1>1, <1>3, <1>4 DEF Headed
<1> QED BY <1>4, <1>5, <1>6

LEMMA WithoutImagesProps ==
  ASSUME NEW m \in Message
  PROVE  /\ WithoutImages(m) \in Message /\ Price(WithoutImages(m)) <= Price(m)
         /\ WithoutImages(m).role = m.role
         /\ m.kind = "plain" => WithoutImages(m).kind = "plain"
<1>1. Price(m) \in Nat /\ Price(m) >= m.size /\ m.size \in Nat /\ m.images \in Nat
  BY PriceNat DEF Message
<1>2. CASE m.images = 0
  BY <1>1, <1>2 DEF WithoutImages
<1>3. CASE m.images # 0 /\ m.size > 0
  <2>1. WithoutImages(m) = [m EXCEPT !.images = 0]
    BY <1>3 DEF WithoutImages
  <2>2. [m EXCEPT !.images = 0] \in Message /\ [m EXCEPT !.images = 0].size = m.size
        /\ [m EXCEPT !.images = 0].images = 0 /\ [m EXCEPT !.images = 0].role = m.role
        /\ [m EXCEPT !.images = 0].kind = m.kind
    BY DEF Message
  <2>3. Price([m EXCEPT !.images = 0]) = m.size
    BY <1>1, <2>2, PriceAssumption DEF Price
  <2> QED BY <1>1, <2>1, <2>2, <2>3
<1>4. CASE m.images # 0 /\ ~(m.size > 0)
  <2>1. WithoutImages(m) = Replaced(m)
    BY <1>4 DEF WithoutImages
  <2>2. Price(m) >= 1
    <3>1. m.images \in Nat /\ m.images >= 1 /\ ImageSize \in Nat /\ ImageSize >= 1
      BY <1>1, <1>4, PriceAssumption
    <3>2. m.images * ImageSize >= 1
      BY <3>1
    <3>3. m.images * ImageSize \in Nat
      BY <3>1
    <3> QED BY <1>1, <3>2, <3>3 DEF Price
  <2> QED BY <2>1, <2>2, ReplacedPrice
<1> QED BY <1>2, <1>3, <1>4

LEMMA StripImagesProps ==
  ASSUME NEW s \in Seq(Message)
  PROVE  /\ StripImages(s) \in Seq(Message) /\ Cheaper(StripImages(s), s)
         /\ Headed(s) => Headed(StripImages(s))
<1>1. StripImages(s) = [i \in 1..Len(s) |-> WithoutImages(s[i])] /\ Len(s) \in Nat
  BY DEF StripImages, Map
<1>2. \A i \in 1..Len(s) : s[i] \in Message
  OBVIOUS
<1>3. StripImages(s) \in Seq(Message) /\ Len(StripImages(s)) = Len(s)
      /\ \A i \in 1..Len(s) : StripImages(s)[i] = WithoutImages(s[i])
  BY <1>1, <1>2, WithoutImagesProps
<1>4. Cheaper(StripImages(s), s)
  BY <1>2, <1>3, WithoutImagesProps DEF Cheaper
<1>5. Headed(s) => Headed(StripImages(s))
  BY <1>2, <1>3, WithoutImagesProps DEF Headed
<1> QED BY <1>3, <1>4, <1>5

-----------------------------------------------------------------------------
(* Compression                                                             *)

LEMMA Written ==
  /\ System \in Message /\ Assistant \in Message
  /\ User("plain", 2, 0) \in Message
BY DEF System, Assistant, User, Message

LEMMA RebuiltProps ==
  ASSUME NEW s \in Seq(Message)
  PROVE  /\ Rebuilt(s) \in Seq(Message) /\ Len(Rebuilt(s)) <= 2
         /\ Headed(s) => Headed(Rebuilt(s)) /\ Len(Rebuilt(s)) = 2
<1> DEFINE head == IF s # <<>> /\ Head(s).role = "system" THEN <<Head(s)>> ELSE <<>>
           request == <<User("plain", 2, 0)>>
<1>1. request \in Seq(Message) /\ Len(request) = 1
  BY Written
<1>2. s # <<>> => s[1] \in Message /\ Head(s) = s[1]
  OBVIOUS
<1>3. head \in Seq(Message) /\ Len(head) <= 1 /\ Len(head) \in Nat
  BY <1>2
<1>4. Headed(s) => Len(head) = 1 /\ head[1] = s[1]
  BY <1>2 DEF Headed
<1>5. Rebuilt(s) = head \o request
  BY DEF Rebuilt
<1> HIDE DEF head, request
<1>6. head \o request \in Seq(Message) /\ Len(head \o request) = Len(head) + 1
      /\ (Len(head) = 1 => (head \o request)[1] = head[1])
  <2>1. head \o request \in Seq(Message) /\ Len(head \o request) = Len(head) + Len(request)
        /\ \A i \in 1..(Len(head) + Len(request)) : (head \o request)[i] =
             IF i <= Len(head) THEN head[i] ELSE request[i - Len(head)]
    BY <1>1, <1>3, ConcatProperties
  <2> QED BY <1>1, <1>3, <2>1
<1>7. Len(head) = 1 => head \o request # <<>>
  BY <1>6
<1> QED BY <1>3, <1>4, <1>5, <1>6, <1>7 DEF Headed

\* A list rebuilt from one the guard lets pass is let pass: the anchor counts
\* at least its two messages.
LEMMA RebuiltFits ==
  ASSUME NEW s \in Seq(Message), NEW a \in Anchors, a # NoAnchor => a.count >= 2,
         Len(s) >= 2, Fits(a, s)
  PROVE  Fits(a, Rebuilt(s))
<1> DEFINE r == Rebuilt(s)
<1>1. r \in Seq(Message) /\ Len(r) <= 2 /\ Len(r) \in Nat /\ Len(s) \in Nat
  BY RebuiltProps
<1> HIDE DEF r
<1> SUFFICES ASSUME Anchored(a, r) PROVE LiveTokens(a, r) < Limit
  BY DEF Fits, r
<1>2. a.count \in Nat /\ a.tokens \in Nat /\ a.count = 2 /\ Len(r) = 2 /\ Anchored(a, s)
  <2>1. a # NoAnchor /\ a.count <= Len(r)
    BY DEF Anchored
  <2>2. a.count \in Nat /\ a.tokens \in Nat
    BY <2>1 DEF Anchors
  <2>3. a.count = 2 /\ Len(r) = 2
    <3>1. \A x, y \in Nat : x <= y /\ y <= 2 /\ x >= 2 => x = 2 /\ y = 2
      OBVIOUS
    <3>2. a.count >= 2
      BY <2>1
    <3> QED BY <1>1, <2>1, <2>2, <3>1, <3>2
  <2> QED BY <1>1, <2>1, <2>2, <2>3 DEF Anchored
<1>3. SubSeq(r, a.count + 1, Len(r)) = <<>>
  BY <1>2, SubSeqEmpty
<1>4. Estimate(<<>>) = 0
  BY ExactEmpty, PriceAssumption DEF Estimate
<1>5. LiveTokens(a, r) = a.tokens
  <2>1. LiveTokens(a, r) = a.tokens + Estimate(SubSeq(r, a.count + 1, Len(r)))
    BY DEF LiveTokens
  <2>2. Estimate(SubSeq(r, a.count + 1, Len(r))) = 0
    BY <1>3, <1>4
  <2> QED BY <1>2, <2>1, <2>2
<1>6. SubSeq(s, a.count + 1, Len(s)) \in Seq(Message)
  <2>1. a.count + 1 \in 1..(Len(s) + 1) /\ Len(s) \in ((a.count + 1) - 1)..Len(s)
    BY <1>1, <1>2
  <2> QED BY <2>1, Part
<1>7. LiveTokens(a, s) >= a.tokens /\ LiveTokens(a, s) \in Nat
  <2>1. LiveTokens(a, s) = a.tokens + Estimate(SubSeq(s, a.count + 1, Len(s)))
    BY <1>2 DEF LiveTokens
  <2>2. Estimate(SubSeq(s, a.count + 1, Len(s))) \in Nat
    BY <1>6, EstimateNat
  <2> QED BY <1>2, <2>1, <2>2
<1>8. LiveTokens(a, s) < Limit
  BY <1>2 DEF Fits
<1> QED BY <1>2, <1>5, <1>7, <1>8, LimitInt

\* s without the messages between p and q.
Without(s, p, q) == SubSeq(s, 1, p) \o SubSeq(s, q, Len(s))

LEMMA WithoutProps ==
  ASSUME NEW s \in Seq(Message), NEW p \in 1..Len(s), NEW q \in 1..Len(s), p < q
  PROVE  /\ Without(s, p, q) \in Seq(Message)
         /\ Len(Without(s, p, q)) = p + (Len(s) - q + 1)
         /\ Without(s, p, q)[1] = s[1]
<1>1. Len(s) \in Nat /\ p \in 1..Len(s) /\ q \in 1..Len(s)
  OBVIOUS
<1> DEFINE b == SubSeq(s, 1, p)
           e == SubSeq(s, q, Len(s))
<1>2. b \in Seq(Message) /\ Len(b) = p - 1 + 1 /\ \A i \in 1..(p - 1 + 1) : b[i] = s[1 + i - 1]
  <2>1. 1 \in 1..(Len(s) + 1) /\ p \in (1 - 1)..Len(s)
    BY <1>1
  <2> QED BY <2>1, Part
<1>3. e \in Seq(Message) /\ Len(e) = Len(s) - q + 1
  <2>1. q \in 1..(Len(s) + 1) /\ Len(s) \in (q - 1)..Len(s)
    BY <1>1
  <2> QED BY <2>1, Part
<1> HIDE DEF b, e
<1>4. Len(b) = p /\ b[1] = s[1]
  BY <1>1, <1>2
<1>5. b \o e \in Seq(Message) /\ Len(b \o e) = p + (Len(s) - q + 1) /\ (b \o e)[1] = b[1]
  BY <1>1, <1>2, <1>3, <1>4
<1> QED BY <1>4, <1>5 DEF Without, b, e

\* The tail of a list is as dear as its parts.
LEMMA TailSplits ==
  ASSUME NEW s \in Seq(Message), NEW k \in 0..Len(s), NEW m \in k..Len(s)
  PROVE  /\ SubSeq(s, k + 1, Len(s)) \in Seq(Message)
         /\ SubSeq(s, k + 1, m) \in Seq(Message) /\ SubSeq(s, m + 1, Len(s)) \in Seq(Message)
         /\ Estimate(SubSeq(s, k + 1, Len(s)))
              = Estimate(SubSeq(s, k + 1, m)) + Estimate(SubSeq(s, m + 1, Len(s)))
<1>1. Len(s) \in Nat /\ k \in Nat /\ m \in Nat /\ k <= m /\ m <= Len(s)
  OBVIOUS
<1>2. k + 1 \in 1..(Len(s) + 1) /\ m + 1 \in 1..(Len(s) + 1)
      /\ m \in ((k + 1) - 1)..Len(s) /\ Len(s) \in ((k + 1) - 1)..Len(s)
      /\ Len(s) \in ((m + 1) - 1)..Len(s) /\ Len(s) \in m..Len(s)
  BY <1>1
<1>3. SubSeq(s, k + 1, Len(s)) \in Seq(Message)
      /\ SubSeq(s, k + 1, m) \in Seq(Message) /\ SubSeq(s, m + 1, Len(s)) \in Seq(Message)
  BY <1>2, Part
<1>4. SubSeq(s, k + 1, m) \o SubSeq(s, m + 1, Len(s)) = SubSeq(s, k + 1, Len(s))
  BY <1>2, ConcatAdjacentSubSeq
<1>5. Estimate(SubSeq(s, k + 1, m) \o SubSeq(s, m + 1, Len(s)))
        = Estimate(SubSeq(s, k + 1, m)) + Estimate(SubSeq(s, m + 1, Len(s)))
  BY <1>3, EstimateConcat
<1> QED BY <1>3, <1>4, <1>5

LEMMA PartOfPart ==
  ASSUME NEW s \in Seq(Message), NEW i \in 1..Len(s), NEW j \in 1..Len(s),
         NEW m \in 1..(j - i + 1), NEW n \in 1..(j - i + 1)
  PROVE  SubSeq(SubSeq(s, i, j), m, n) = SubSeq(s, i + m - 1, i + n - 1)
BY SubSeqOfSubSeq

\* A list the guard lets pass is let pass without some of its messages.
LEMMA WithoutFits ==
  ASSUME NEW s \in Seq(Message), NEW a \in Anchors, Fits(a, s),
         NEW p \in 1..Len(s), NEW q \in 1..Len(s), p < q
  PROVE  Fits(a, Without(s, p, q))
<1> DEFINE w == Without(s, p, q)
           n == Len(s)
           k == a.count
<1>1. w \in Seq(Message) /\ Len(w) = p + (n - q + 1)
  BY WithoutProps
<1> SUFFICES ASSUME Anchored(a, w) PROVE LiveTokens(a, w) < Limit
  BY DEF Fits
<1>2. n \in Nat /\ p \in Nat /\ q \in Nat /\ 1 <= p /\ p < q /\ q <= n
  OBVIOUS
<1>3. k \in Nat /\ a.tokens \in Nat /\ k <= p + (n - q + 1)
  BY <1>1 DEF Anchored, Anchors
<1>4. Anchored(a, s) /\ k <= n
  BY <1>2, <1>3 DEF Anchored
<1>5. LiveTokens(a, s) = a.tokens + Estimate(SubSeq(s, k + 1, n)) /\ LiveTokens(a, s) < Limit
  BY <1>4 DEF LiveTokens, Fits
<1>6. LiveTokens(a, w) = a.tokens + Estimate(SubSeq(w, k + 1, Len(w)))
  BY DEF LiveTokens
<1>7. SubSeq(s, q, n) \in Seq(Message) /\ SubSeq(s, 1, p) \in Seq(Message)
      /\ Len(SubSeq(s, 1, p)) = p /\ Len(SubSeq(s, q, n)) = n - q + 1
      /\ (\A i \in 1..p : SubSeq(s, 1, p)[i] = s[i])
      /\ \A i \in 1..(n - q + 1) : SubSeq(s, q, n)[i] = s[q + i - 1]
  <2>1. 1 \in 1..(n + 1) /\ p \in (1 - 1)..n /\ q \in 1..(n + 1) /\ n \in (q - 1)..n
    BY <1>2
  <2>2. SubSeq(s, q, n) \in Seq(Message) /\ Len(SubSeq(s, q, n)) = n - q + 1
        /\ \A i \in 1..(n - q + 1) : SubSeq(s, q, n)[i] = s[q + i - 1]
    BY <2>1, Part
  <2>3. SubSeq(s, 1, p) \in Seq(Message) /\ Len(SubSeq(s, 1, p)) = p - 1 + 1
        /\ \A i \in 1..(p - 1 + 1) : SubSeq(s, 1, p)[i] = s[1 + i - 1]
    BY <2>1, Part
  <2>4. p - 1 + 1 = p /\ \A i \in 1..p : 1 + i - 1 = i
    BY <1>2
  <2> QED BY <2>2, <2>3, <2>4
<1>8. Estimate(SubSeq(w, k + 1, Len(w))) <= Estimate(SubSeq(s, k + 1, n))
      /\ Estimate(SubSeq(w, k + 1, Len(w))) \in Nat /\ Estimate(SubSeq(s, k + 1, n)) \in Nat
  <2>1. CASE k < p
    <3> DEFINE u == SubSeq(w, k + 1, p)
    <3>1. k \in 0..Len(w) /\ p \in k..Len(w)
      BY <1>1, <1>2, <1>3, <2>1
    <3>2. /\ SubSeq(w, k + 1, p) \in Seq(Message) /\ SubSeq(w, p + 1, Len(w)) \in Seq(Message)
          /\ Estimate(SubSeq(w, k + 1, Len(w)))
               = Estimate(SubSeq(w, k + 1, p)) + Estimate(SubSeq(w, p + 1, Len(w)))
      BY <1>1, <3>1, TailSplits
    <3>3. SubSeq(w, k + 1, p) = SubSeq(s, k + 1, p)
      <4>1. SubSeq(w, k + 1, p) = SubSeq(SubSeq(s, 1, p), k + 1, p)
        <5>1. k + 1 \in 1..Len(SubSeq(s, 1, p)) /\ p \in 1..Len(SubSeq(s, 1, p))
          BY <1>2, <1>3, <1>7, <2>1
        <5> QED BY <1>7, <5>1, SubSeqOfConcat1 DEF Without
      <4>2. SubSeq(SubSeq(s, 1, p), k + 1, p) = SubSeq(s, 1 + (k + 1) - 1, 1 + p - 1)
        <5>1. 1 \in 1..Len(s) /\ p \in 1..Len(s) /\ k + 1 \in 1..(p - 1 + 1) /\ p \in 1..(p - 1 + 1)
          BY <1>2, <1>3, <2>1
        <5> QED BY <5>1, PartOfPart
      <4>3. 1 + (k + 1) - 1 = k + 1 /\ 1 + p - 1 = p
        BY <1>2, <1>3
      <4> QED BY <4>1, <4>2, <4>3
    <3>4. SubSeq(w, p + 1, Len(w)) = SubSeq(s, q, n)
      <4>1. p + 1 \in (Len(SubSeq(s, 1, p)) + 1)..(Len(SubSeq(s, 1, p)) + Len(SubSeq(s, q, n)))
            /\ Len(w) \in (Len(SubSeq(s, 1, p)) + 1)..(Len(SubSeq(s, 1, p)) + Len(SubSeq(s, q, n)))
        BY <1>1, <1>2, <1>7
      <4>2. SubSeq(w, p + 1, Len(w)) = SubSeq(SubSeq(s, q, n), (p + 1) - p, Len(w) - p)
        BY <1>7, <4>1, SubSeqOfConcat2 DEF Without
      <4>3. (p + 1) - p = 1 /\ Len(w) - p = Len(SubSeq(s, q, n))
        BY <1>1, <1>2, <1>7
      <4> QED BY <1>7, <4>2, <4>3, SubSeqFull
    <3>5. k \in 0..Len(s) /\ p \in k..Len(s) /\ p \in 0..Len(s) /\ q - 1 \in p..Len(s)
          /\ (q - 1) + 1 = q
      BY <1>2, <1>3, <2>1
    <3>6. Estimate(SubSeq(s, k + 1, n))
            = Estimate(SubSeq(s, k + 1, p)) + Estimate(SubSeq(s, p + 1, n))
          /\ SubSeq(s, k + 1, p) \in Seq(Message)
      BY <3>5, TailSplits
    <3>7. Estimate(SubSeq(s, p + 1, n))
            = Estimate(SubSeq(s, p + 1, q - 1)) + Estimate(SubSeq(s, (q - 1) + 1, n))
          /\ SubSeq(s, p + 1, q - 1) \in Seq(Message)
      BY <3>5, TailSplits
    <3>8. Estimate(SubSeq(s, k + 1, p)) \in Nat /\ Estimate(SubSeq(s, p + 1, q - 1)) \in Nat
          /\ Estimate(SubSeq(s, q, n)) \in Nat
      BY <1>7, <3>6, <3>7, EstimateNat
    <3>9. SubSeq(s, (q - 1) + 1, n) = SubSeq(s, q, n)
      BY <3>5
    <3>10. Estimate(SubSeq(w, k + 1, Len(w)))
             = Estimate(SubSeq(s, k + 1, p)) + Estimate(SubSeq(s, q, n))
      BY <3>2, <3>3, <3>4
    <3>11. Estimate(SubSeq(s, k + 1, n))
             = Estimate(SubSeq(s, k + 1, p))
                 + (Estimate(SubSeq(s, p + 1, q - 1)) + Estimate(SubSeq(s, q, n)))
      BY <3>6, <3>7, <3>9
    <3> HIDE DEF w, n, k
    <3> QED BY <3>8, <3>10, <3>11
  <2>2. CASE ~(k < p)
    <3> DEFINE d == q - p - 1
    <3>1. SubSeq(w, k + 1, Len(w)) = SubSeq(s, (k + d) + 1, n)
      <4>1. CASE k < Len(w)
        <5>1. Len(w) - p = n - q + 1 /\ (k + 1) - p \in 1..(n - q + 1) /\ n - q + 1 \in 1..(n - q + 1)
              /\ q \in 1..Len(s) /\ n \in 1..Len(s)
              /\ q + ((k + 1) - p) - 1 = (k + d) + 1 /\ q + (n - q + 1) - 1 = n
          <6> HIDE DEF w, k
          <6> QED BY <1>1, <1>2, <1>3, <2>2, <4>1
        <5>2. k + 1 \in (p + 1)..(p + (n - q + 1)) /\ Len(w) \in (p + 1)..(p + (n - q + 1))
          <6> HIDE DEF w, k
          <6> QED BY <1>1, <1>2, <1>3, <2>2, <4>1
        <5>3. SubSeq(w, k + 1, Len(w)) = SubSeq(SubSeq(s, q, n), (k + 1) - p, Len(w) - p)
          <6> DEFINE b == SubSeq(s, 1, p)
                     e == SubSeq(s, q, n)
          <6>1. b \in Seq(Message) /\ e \in Seq(Message) /\ Len(b) = p /\ Len(e) = n - q + 1
            BY <1>7
          <6>2. w = b \o e
            BY DEF Without
          <6> HIDE DEF b, e, w, k, n
          <6>3. SubSeq(b \o e, k + 1, Len(w)) = SubSeq(e, (k + 1) - Len(b), Len(w) - Len(b))
            <7>1. k + 1 \in (Len(b) + 1)..(Len(b) + Len(e)) /\ Len(w) \in (Len(b) + 1)..(Len(b) + Len(e))
              BY <5>2, <6>1
            <7> QED BY <6>1, <7>1, SubSeqOfConcat2
          <6>4. SubSeq(w, k + 1, Len(w)) = SubSeq(e, (k + 1) - p, Len(w) - p)
            BY <6>1, <6>2, <6>3
          <6> QED BY <6>4 DEF e
        <5>4. SubSeq(SubSeq(s, q, n), (k + 1) - p, n - q + 1)
                = SubSeq(s, q + ((k + 1) - p) - 1, q + (n - q + 1) - 1)
          BY <5>1, PartOfPart
        <5> HIDE DEF w, k, d, n
        <5> QED BY <5>1, <5>3, <5>4
      <4>2. CASE ~(k < Len(w))
        <5>1. Len(w) \in Int /\ k + 1 \in Int /\ Len(w) < k + 1
              /\ (k + d) + 1 \in Int /\ n \in Int /\ n < (k + d) + 1
          BY <1>1, <1>2, <1>3, <4>2
        <5> HIDE DEF w, d, k, n
        <5> QED BY <5>1, SubSeqEmpty
      <4> QED BY <4>1, <4>2
    <3>2. k \in 0..Len(s) /\ k + d \in k..Len(s)
      BY <1>2, <1>3, <2>2
    <3>3. Estimate(SubSeq(s, k + 1, n))
            = Estimate(SubSeq(s, k + 1, k + d)) + Estimate(SubSeq(s, (k + d) + 1, n))
          /\ SubSeq(s, k + 1, k + d) \in Seq(Message) /\ SubSeq(s, (k + d) + 1, n) \in Seq(Message)
      BY <3>2, TailSplits
    <3>4. Estimate(SubSeq(s, k + 1, k + d)) \in Nat /\ Estimate(SubSeq(s, (k + d) + 1, n)) \in Nat
      BY <3>3, EstimateNat
    <3>5. Estimate(SubSeq(w, k + 1, Len(w))) = Estimate(SubSeq(s, (k + d) + 1, n))
      BY <3>1
    <3> HIDE DEF w, n, k, d
    <3> QED BY <3>3, <3>4, <3>5
  <2> QED BY <2>1, <2>2
<1> HIDE DEF w, n, k
<1> QED BY <1>3, <1>5, <1>6, <1>8, LimitInt

LEMMA Compressed ==
  ASSUME NEW s \in Seq(Message), NEW c \in Compressions(s)
  PROVE  /\ c \in Seq(Message)
         /\ Headed(s) => Headed(c)
         /\ Headed(s) /\ Len(s) >= 2 => Len(c) >= 2
         /\ \A a \in Anchors : (a # NoAnchor => a.count >= 2) /\ Len(s) >= 2 /\ Fits(a, s)
              => Fits(a, c)
<1>1. CASE c = s
  BY <1>1
<1>2. CASE c = Rebuilt(s)
  BY <1>2, RebuiltProps, RebuiltFits
<1>3. CASE c \in Redactions(s)
  <2>1. PICK b \in (DOMAIN s) \X (DOMAIN s) :
          b[1] < b[2] /\ c = SubSeq(s, 1, b[1]) \o SubSeq(s, b[2], Len(s))
    BY <1>3 DEF Redactions
  <2>2. b[1] \in 1..Len(s) /\ b[2] \in 1..Len(s) /\ c = Without(s, b[1], b[2]) /\ b[1] < b[2]
    BY <2>1 DEF Without
  <2> DEFINE p == b[1]
             q == b[2]
  <2>3. p \in 1..Len(s) /\ q \in 1..Len(s) /\ p < q /\ c = Without(s, p, q)
    BY <2>2
  <2> HIDE DEF p, q
  <2>4. c \in Seq(Message) /\ Len(c) = p + (Len(s) - q + 1) /\ c[1] = s[1]
    BY <2>3, WithoutProps
  <2>5. Len(c) >= 2 /\ c # <<>>
    BY <2>3, <2>4
  <2>6. Headed(s) => Headed(c)
    BY <2>4, <2>5 DEF Headed
  <2>7. \A a \in Anchors : Fits(a, s) => Fits(a, c)
    BY <2>3, WithoutFits
  <2> QED BY <2>4, <2>5, <2>6, <2>7
<1> QED BY <1>1, <1>2, <1>3 DEF Compressions

-----------------------------------------------------------------------------
(* The guard                                                               *)

\* s differs from t in the size and the images of its messages alone.
Alike(s, t) ==
  /\ s \in Seq(Message) /\ Len(s) = Len(t)
  /\ \A i \in 1..Len(t) :
       s[i].role = t[i].role /\ s[i].kind = t[i].kind /\ s[i].summary = t[i].summary

LEMMA CutAlike ==
  ASSUME NEW s \in Seq(Message)
  PROVE  Alike(TruncateLargest(s), s)
<1> DEFINE size(i) == s[i].size
           largest == {i \in UsersOf(s) : size(i) > Prune /\
                         \A j \in UsersOf(s) : size(j) < size(i) \/ (size(j) = size(i) /\ i <= j)}
<1>1. TruncateLargest(s) =
        [i \in 1..Len(s) |-> IF i \in largest THEN [s[i] EXCEPT !.size = Prune + 1] ELSE s[i]]
  BY DEF TruncateLargest
<1> HIDE DEF largest
<1>2. \A m \in Message : [m EXCEPT !.size = Prune + 1] \in Message
        /\ [m EXCEPT !.size = Prune + 1].role = m.role
        /\ [m EXCEPT !.size = Prune + 1].kind = m.kind
        /\ [m EXCEPT !.size = Prune + 1].summary = m.summary
  <2>1. Prune + 1 \in Nat
    BY PriceAssumption
  <2> DEFINE size1 == Prune + 1
  <2> HIDE DEF size1
  <2>2. size1 \in Nat
    BY <2>1 DEF size1
  <2>3. \A m \in Message : [m EXCEPT !.size = size1] \in Message
          /\ [m EXCEPT !.size = size1].role = m.role
          /\ [m EXCEPT !.size = size1].kind = m.kind
          /\ [m EXCEPT !.size = size1].summary = m.summary
    BY <2>2 DEF Message
  <2> QED BY <2>3 DEF size1
<1>3. \A i \in 1..Len(s) : s[i] \in Message
  OBVIOUS
<1> QED BY <1>1, <1>2, <1>3 DEF Alike

LEMMA StubAlike ==
  ASSUME NEW s \in Seq(Message)
  PROVE  Alike(StubNewest(s), s)
<1> DEFINE n == NewestFeedback(s)
           stub(m) == [m EXCEPT !.size = 1, !.images = 0]
<1>1. StubNewest(s) = [k \in 1..Len(s) |-> IF k = n THEN stub(s[k]) ELSE s[k]]
  BY DEF StubNewest
<1>2. \A m \in Message : stub(m) \in Message /\ stub(m).role = m.role
        /\ stub(m).kind = m.kind /\ stub(m).summary = m.summary
  BY DEF Message
<1> HIDE DEF n, stub
<1>3. \A i \in 1..Len(s) : s[i] \in Message
  OBVIOUS
<1> QED BY <1>1, <1>2, <1>3 DEF Alike

\* What the guard sends it has pruned, and then it says so, or it fits.
LEMMA GuardedProps ==
  ASSUME NEW s \in Seq(Message), NEW a \in Anchors
  PROVE  LET g == Guarded(a, s, Limit)
         IN  /\ Alike(g.list, s)
             /\ g.persist \in BOOLEAN /\ g.sends \in BOOLEAN
             /\ g.sends /\ ~g.persist => g.list = s /\ Fits(a, s)
             /\ Fits(a, s) => g.list = s /\ ~g.persist /\ g.sends
<1> DEFINE cut == TruncateLargest(s)
           stub == StubNewest(cut)
           canCut == \E i \in UsersOf(s) : s[i].size > Prune
           canStub == NewestFeedback(cut) # 0
           g == Guarded(a, s, Limit)
<1>1. Alike(s, s) /\ Alike(cut, s)
  BY CutAlike DEF Alike
<1>2. Alike(stub, cut)
  BY <1>1, StubAlike DEF Alike
<1>3. Alike(stub, s)
  <2> HIDE DEF cut, stub
  <2> QED BY <1>1, <1>2 DEF Alike
<1>4. CASE ~Anchored(a, s) \/ LiveTokens(a, s) < Limit
  <2>1. g = [list |-> s, persist |-> FALSE, sends |-> TRUE]
    BY <1>4 DEF Guarded
  <2>2. Fits(a, s)
    BY <1>4 DEF Fits
  <2> HIDE DEF g
  <2>3. g.list = s /\ g.persist = FALSE /\ g.sends = TRUE
    BY <2>1
  <2> QED BY <1>1, <2>2, <2>3 DEF g
<1>5. CASE ~(~Anchored(a, s) \/ LiveTokens(a, s) < Limit)
  <2>0. ~Fits(a, s)
    BY <1>5 DEF Fits
  <2>1. CASE canCut /\ Estimate(cut) < Limit
    <3>1. g = [list |-> cut, persist |-> TRUE, sends |-> TRUE]
      BY <1>5, <2>1 DEF Guarded
    <3> HIDE DEF g, cut
    <3>2. g.list = cut /\ g.persist = TRUE /\ g.sends = TRUE
      BY <3>1
    <3> QED BY <1>1, <2>0, <3>2 DEF g
  <2>2. CASE ~(canCut /\ Estimate(cut) < Limit)
    <3>1. g = [list |-> stub, persist |-> canCut \/ canStub,
               sends |-> canStub /\ Estimate(stub) < Limit]
      BY <1>5, <2>2 DEF Guarded
    <3> HIDE DEF g, cut, stub, canCut, canStub
    <3>2. g.list = stub /\ g.persist = (canCut \/ canStub)
          /\ g.sends = (canStub /\ Estimate(stub) < Limit)
      BY <3>1
    <3>3. g.persist \in BOOLEAN /\ g.sends \in BOOLEAN /\ (g.sends => g.persist)
      BY <3>2
    <3> QED BY <1>3, <2>0, <3>2, <3>3 DEF g
  <2> QED BY <2>1, <2>2
<1> QED BY <1>4, <1>5

LEMMA AlikeHeaded ==
  ASSUME NEW s, NEW t \in Seq(Message), Alike(s, t), Headed(t)
  PROVE  Headed(s)
BY DEF Alike, Headed

\* A list that has the fields the API knows, and no others, goes out as it is.
LEMMA PreparedAlike ==
  ASSUME NEW t \in Seq(Message), NEW s, Alike(s, Prepare(t))
  PROVE  Prepare(s) = s
<1>1. s \in Seq(Message) /\ Len(s) = Len(t) /\ Prepare(t) \in Seq(Message)
      /\ Len(Prepare(t)) = Len(t)
  BY Prepared DEF Alike
<1>2. \A i \in 1..Len(s) : s[i] \in Message /\ s[i].summary = FALSE
  <2> SUFFICES ASSUME NEW i \in 1..Len(s) PROVE s[i] \in Message /\ s[i].summary = FALSE
    OBVIOUS
  <2>1. Prepare(t)[i] = [t[i] EXCEPT !.summary = FALSE] /\ t[i] \in Message
    BY <1>1, Prepared
  <2>2. Prepare(t)[i].summary = FALSE
    BY <2>1 DEF Message
  <2>3. s[i].summary = Prepare(t)[i].summary
    BY <1>1 DEF Alike
  <2> QED BY <1>1, <2>2, <2>3
<1>3. \A m \in Message : m.summary = FALSE => [m EXCEPT !.summary = FALSE] = m
  BY DEF Message
<1>4. \A i \in 1..Len(s) : Prepare(s)[i] = s[i]
  BY <1>1, <1>2, <1>3, Prepared
<1>5. Prepare(s) \in Seq(Message) /\ Len(Prepare(s)) = Len(s)
  BY <1>1, Prepared
<1> QED BY <1>1, <1>4, <1>5, SeqEqual

-----------------------------------------------------------------------------
(* The breaker                                                             *)

HealthInv == health \in HealthStatus /\ BreakerBounds

\* An attempt asks for the health, an answer or a failure of the transport
\* records it, and nothing else touches it.
LEMMA HealthSteps ==
  ASSUME [Next]_vars
  PROVE  \/ health' = health \/ (\E elapsed \in BOOLEAN : health' = Asked(health, elapsed))
         \/ health' = RecordFailure(health) \/ health' = RecordSuccess(health)
<1>1. CASE Between
  BY <1>1 DEF Between, Ask, CloseTurn, Compress, Undo, Clear, CallModel, Summarise, BeginCall
<1>2. CASE InCall
  <2>1. CASE \E elapsed \in BOOLEAN : Attempt(elapsed)
    BY <2>1 DEF Attempt
  <2>2. CASE (\E kind \in Transients : Transient(kind)) \/ Fatal \/ Overflow \/ Unencodable
    BY <2>2 DEF Transient, Fatal, Overflow, Unencodable
  <2>3. CASE NoVision
    BY <2>3 DEF NoVision
  <2>4. CASE (\E kind \in {"text", "reasoning"} : Chunk(kind)) \/ StreamAborts \/ TooShort \/ Reply
    BY <2>4 DEF Chunk, StreamAborts, TooShort, Reply
  <2>5. CASE (\E usage \in BOOLEAN : StreamEnds(usage)) \/ (\E good \in BOOLEAN : SummaryEnds(good))
    BY <2>5 DEF StreamEnds, SummaryEnds
  <2> QED BY <1>2, <2>1, <2>2, <2>3, <2>4, <2>5 DEF InCall
<1>3. CASE UNCHANGED vars
  BY <1>3 DEF vars
<1> QED BY <1>1, <1>2, <1>3 DEF Next

LEMMA HealthKept ==
  ASSUME HealthInv, [Next]_vars
  PROVE  HealthInv'
<1>1. health.circuit \in {"closed", "open", "half_open"} /\ health.failures \in Nat
      /\ health.successes \in Nat /\ FailureThreshold \in Nat /\ FailureThreshold > 0
      /\ SuccessThreshold \in Nat /\ SuccessThreshold > 0
  BY BreakerAssumption DEF HealthInv, HealthStatus
<1>2. CASE health' = health
  BY <1>2 DEF HealthInv, BreakerBounds
<1>3. CASE \E elapsed \in BOOLEAN : health' = Asked(health, elapsed)
  <2>1. CASE health.circuit = "open" /\ health' = [health EXCEPT !.circuit = "half_open", !.successes = 0]
    <3>1. health' \in HealthStatus /\ health'.circuit = "half_open" /\ health'.successes = 0
      BY <2>1 DEF HealthInv, HealthStatus
    <3> QED BY <1>1, <3>1 DEF HealthInv, BreakerBounds
  <2> QED BY <1>2, <1>3, <2>1 DEF Asked
<1>4. CASE health' = RecordFailure(health)
  <2> DEFINE opens == health.circuit # "open" /\ health.failures + 1 >= FailureThreshold
  <2>1. health' = [circuit |-> IF opens THEN "open" ELSE health.circuit,
                   failures |-> health.failures + 1, successes |-> 0]
    BY <1>4 DEF RecordFailure
  <2>2. health' \in HealthStatus /\ health'.failures = health.failures + 1
        /\ health'.successes = 0 /\ health'.circuit = IF opens THEN "open" ELSE health.circuit
    BY <1>1, <2>1 DEF HealthStatus
  <2>3. health'.circuit = "closed" => health.failures + 1 < FailureThreshold
    BY <1>1, <2>2
  <2> QED BY <1>1, <2>2, <2>3 DEF HealthInv, BreakerBounds
<1>5. CASE health' = RecordSuccess(health)
  <2> DEFINE closes == health.circuit = "half_open" /\ health.successes + 1 >= SuccessThreshold
  <2>1. health' = [circuit |-> IF closes THEN "closed" ELSE health.circuit,
                   failures |-> 0, successes |-> health.successes + 1]
    BY <1>5 DEF RecordSuccess
  <2>2. health' \in HealthStatus /\ health'.failures = 0
        /\ health'.successes = health.successes + 1
        /\ health'.circuit = IF closes THEN "closed" ELSE health.circuit
    BY <1>1, <2>1 DEF HealthStatus
  <2>3. health'.circuit = "half_open" => health.successes + 1 < SuccessThreshold
    BY <1>1, <2>2
  <2> QED BY <1>1, <2>2, <2>3 DEF HealthInv, BreakerBounds
<1> QED BY <1>2, <1>3, <1>4, <1>5, HealthSteps

\* The circuit breaker of the health monitor (model_health.py) is below the
\* thresholds of the state it is in, and never counts both kinds of outcome,
\* for any thresholds and whatever the provider answers.
THEOREM BreakerIsBounded == Spec => []BreakerBounds
<1>1. Init => HealthInv
  <2>1. FreshHealth \in HealthStatus /\ FreshHealth.circuit = "closed"
        /\ FreshHealth.failures = 0 /\ FreshHealth.successes = 0
    BY DEF FreshHealth, HealthStatus
  <2> QED BY <2>1, BreakerAssumption DEF Init, HealthInv, BreakerBounds
<1>2. HealthInv /\ [Next]_vars => HealthInv'
  BY HealthKept
<1>3. HealthInv => BreakerBounds
  BY DEF HealthInv
<1> QED BY <1>1, <1>2, <1>3, PTL DEF Spec

-----------------------------------------------------------------------------
(* Type correctness                                                        *)

Locals ==
  [job : Jobs \cup {"none"}, attempt : Nat, messages : Seq(Message), compressed : BOOLEAN,
   giveUps : Nat, sanitised : BOOLEAN, text : Nat, fed : Nat, cleaned : BOOLEAN]

\* The locals of a call that is in progress.
Running(locals) ==
  /\ locals \in Locals /\ locals.job \in Jobs
  /\ locals.attempt \in 0..MaxRetries[locals.job]
  /\ locals.giveUps \in 0..(GiveUp - 1)
  /\ locals.text <= locals.fed /\ locals.fed \in 0..MaxTokens

ListsOK  == context \in Seq(Message) /\ sent \in Seq(Message)
AnchorOK == anchor \in Anchors
FlagsOK  ==
  /\ pending \in BOOLEAN /\ stale \in BOOLEAN /\ calls \in 0..MaxCalls
  /\ pc \in {"idle", "attempt", "sent", "answered"}
CallOK   == (pc = "idle" /\ call = NoCall) \/ (pc # "idle" /\ Running(call))

TypeInv == ListsOK /\ AnchorOK /\ FlagsOK /\ CallOK /\ HealthInv

LEMMA NoCallIsLocals ==
  NoCall \in Locals /\ NoCall.job = "none" /\ NoCall.messages = <<>> /\ NoCall.compressed = FALSE
BY DEF NoCall, Locals

LEMMA TypeInvTypes ==
  ASSUME TypeInv
  PROVE  TypeOK
<1>1. call \in Locals /\ (call.job = "none" <=> pc = "idle")
  <2>1. CASE pc = "idle" /\ call = NoCall
    BY <2>1, NoCallIsLocals
  <2>2. CASE pc # "idle" /\ Running(call)
    BY <2>2 DEF Running, Jobs
  <2> QED BY <2>1, <2>2 DEF TypeInv, CallOK
<1>2. /\ call.job \in Jobs \cup {"none"} /\ call.messages \in Seq(Message)
      /\ call.job # "none" => call.attempt \in 0..MaxRetries[call.job]
  BY <1>1 DEF TypeInv, CallOK, Running, Locals
<1>3. call.giveUps \in 0..(GiveUp - 1) /\ call.text <= call.fed /\ call.fed \in 0..MaxTokens
  <2>1. CASE pc = "idle" /\ call = NoCall
    <3>1. call.giveUps = 0 /\ call.text = 0 /\ call.fed = 0
      BY <2>1 DEF NoCall
    <3> QED BY <3>1, CallAssumption
  <2>2. CASE pc # "idle" /\ Running(call)
    BY <2>2 DEF Running
  <2> QED BY <2>1, <2>2 DEF TypeInv, CallOK
<1> QED BY <1>1, <1>2, <1>3 DEF TypeInv, TypeOK, ListsOK, AnchorOK, FlagsOK, Anchors, HealthInv

\* The list an attempt works on.
LEMMA WorkingType ==
  ASSUME TypeInv, pc # "idle"
  PROVE  Working \in Seq(Message) /\ call \in Locals /\ Running(call)
BY DEF TypeInv, ListsOK, CallOK, Running, Locals, Working

\* What the next attempt, or the end of the call, makes of the locals.
LEMMA NextAttemptRuns ==
  ASSUME FlagsOK, ListsOK, NEW locals, Running(locals), locals.job = call.job,
         locals.attempt = call.attempt, NextAttempt(locals)
  PROVE  /\ pc' \in {"idle", "attempt"} /\ sent' = <<>> /\ CallOK'
         /\ pc' = "attempt" => /\ call'.job = locals.job /\ call'.messages = locals.messages
                               /\ call'.compressed = locals.compressed
<1>1. CASE call.attempt < MaxRetries[call.job]
  <2>1. pc' = "attempt" /\ sent' = <<>>
        /\ call' = [locals EXCEPT !.attempt = @ + 1, !.text = 0, !.fed = 0]
    BY <1>1 DEF NextAttempt
  <2>2. locals.attempt + 1 \in 0..MaxRetries[locals.job] /\ MaxTokens \in Nat
    <3>1. MaxRetries[locals.job] \in Nat /\ locals.attempt \in Nat
      BY CallAssumption DEF Running
    <3> QED BY <1>1, <3>1, CallAssumption
  <2>3. /\ call' \in Locals /\ call'.job = locals.job /\ call'.attempt = locals.attempt + 1
        /\ call'.giveUps = locals.giveUps /\ call'.text = 0 /\ call'.fed = 0
        /\ call'.messages = locals.messages /\ call'.compressed = locals.compressed
    <3> DEFINE n == locals.attempt + 1
    <3>1. n \in Nat /\ 0 \in Nat
      BY <2>2 DEF Running, Locals
    <3>2. call' = [locals EXCEPT !.attempt = n, !.text = 0, !.fed = 0]
      BY <2>1
    <3> HIDE DEF n
    <3>3. call' \in Locals /\ call'.job = locals.job /\ call'.attempt = n
          /\ call'.giveUps = locals.giveUps /\ call'.text = 0 /\ call'.fed = 0
          /\ call'.messages = locals.messages /\ call'.compressed = locals.compressed
      BY <3>1, <3>2 DEF Running, Locals
    <3> QED BY <3>3 DEF n
  <2>4. Running(call')
    BY <2>2, <2>3 DEF Running
  <2> QED BY <2>1, <2>3, <2>4 DEF CallOK, Running
<1>2. CASE ~(call.attempt < MaxRetries[call.job])
  BY <1>2 DEF NextAttempt, Return, CallOK
<1> QED BY <1>1, <1>2

\* The recoveries' changes to the locals.
LEMMA Changed ==
  ASSUME NEW locals, Running(locals), NEW list \in Seq(Message)
  PROVE  /\ Running([locals EXCEPT !.messages = list, !.compressed = TRUE, !.giveUps = 0])
         /\ Running([locals EXCEPT !.messages = list, !.compressed = TRUE])
         /\ Running([locals EXCEPT !.sanitised = TRUE])
         /\ locals.giveUps # GiveUp - 1 => Running([locals EXCEPT !.giveUps = @ + 1])
<1>1. GiveUp \in Nat /\ 0 \in 0..(GiveUp - 1) /\ locals.giveUps \in Nat
  BY CallAssumption DEF Running
<1>2. locals.giveUps # GiveUp - 1 => locals.giveUps + 1 \in 0..(GiveUp - 1)
  BY <1>1 DEF Running
<1>3. Running([locals EXCEPT !.messages = list, !.compressed = TRUE, !.giveUps = 0])
  BY <1>1 DEF Running, Locals
<1>4. Running([locals EXCEPT !.messages = list, !.compressed = TRUE])
  BY DEF Running, Locals
<1>5. Running([locals EXCEPT !.sanitised = TRUE])
  BY DEF Running, Locals
<1>6. locals.giveUps # GiveUp - 1 => Running([locals EXCEPT !.giveUps = @ + 1])
  BY <1>1, <1>2 DEF Running, Locals
<1> QED BY <1>3, <1>4, <1>5, <1>6

LEMMA ReturnType ==
  ASSUME NEW how, Return(how)
  PROVE  pc' = "idle" /\ sent' = <<>> /\ CallOK' /\ sent' \in Seq(Message)
BY DEF Return, CallOK

\* Where the last request is.
LEMMA LastRequest ==
  ASSUME NEW s \in Seq(Message)
  PROVE  LET last == SelectLastInSeq(s, LAMBDA m : m.role = "user" /\ m.kind = "plain")
         IN  last \in 0..Len(s) /\ (last # 0 => s[last].role = "user")
<1> DEFINE I == {i \in 1..Len(s) : s[i].role = "user" /\ s[i].kind = "plain"}
           last == SelectLastInSeq(s, LAMBDA m : m.role = "user" /\ m.kind = "plain")
<1>1. Len(s) \in Nat /\ I \in SUBSET (1..Len(s))
      /\ \A i \in I : i \in 1..Len(s) /\ i \in 0..Len(s) /\ s[i].role = "user"
  OBVIOUS
<1>2. last = IF I # {} THEN Max(I) ELSE 0
  BY DEF SelectLastInSeq
<1> HIDE DEF I, last
<1>3. I # {} => Max(I) \in I
  BY <1>1, Largest
<1>4. last \in 0..Len(s) /\ (last # 0 => s[last].role = "user")
  <2>1. CASE I = {}
    BY <1>1, <1>2, <2>1
  <2>2. CASE I # {}
    <3>1. last \in I
      BY <1>2, <1>3, <2>2
    <3> QED BY <1>1, <3>1
  <2> QED BY <2>1, <2>2
<1> QED BY <1>4 DEF last

TypeParts == ListsOK /\ AnchorOK /\ FlagsOK /\ CallOK

LEMMA FrontType ==
  ASSUME NEW n \in 0..Len(context), context \in Seq(Message)
  PROVE  SubSeq(context, 1, n) \in Seq(Message) /\ Len(SubSeq(context, 1, n)) = n
         /\ \A i \in 1..n : SubSeq(context, 1, n)[i] = context[i]
<1>1. n \in Nat /\ 1 \in 1..(Len(context) + 1) /\ n \in (1 - 1)..Len(context)
  OBVIOUS
<1>2. SubSeq(context, 1, n) \in Seq(Message) /\ Len(SubSeq(context, 1, n)) = n - 1 + 1
      /\ \A i \in 1..(n - 1 + 1) : SubSeq(context, 1, n)[i] = context[1 + i - 1]
  BY <1>1, Part
<1>3. n - 1 + 1 = n /\ \A i \in 1..n : 1 + i - 1 = i
  BY <1>1
<1> QED BY <1>2, <1>3

LEMMA BetweenTyped ==
  ASSUME TypeParts, Between
  PROVE  TypeParts'
<1> USE DEF TypeParts
<1>0. MaxCalls \in Nat
  BY CallAssumption
<1>1. CASE \E message \in Requests : Ask(message)
  <2>1. PICK message \in Requests : Ask(message)
    BY <1>1
  <2>2. message \in Message
    BY CallAssumption
  <2>3. Append(context, message) \in Seq(Message)
    BY <2>2, AppendProperties DEF ListsOK
  <2> QED BY <2>1, <2>3 DEF Ask, ListsOK, AnchorOK, FlagsOK, CallOK
<1>2. CASE \E putOff \in BOOLEAN : CloseTurn(putOff)
  <2>1. Cleanup(context) \in Seq(Message)
    BY CleanupType DEF ListsOK
  <2>2. context' \in {context, Cleanup(context)} /\ pending' \in {TRUE, pending}
        /\ stale' \in BOOLEAN
        /\ UNCHANGED <<anchor, pc, call, sent, calls>>
    <3>1. PICK putOff \in BOOLEAN : CloseTurn(putOff)
      BY <1>2
    <3>2. CASE putOff
      BY <3>1, <3>2 DEF CloseTurn, FlagsOK
    <3>3. CASE ~putOff
      BY <3>1, <3>3 DEF CloseTurn
    <3> QED BY <3>2, <3>3
  <2> QED BY <2>1, <2>2 DEF ListsOK, AnchorOK, FlagsOK, CallOK
<1>3. CASE \E compressed \in Compressions(context) : Compress(compressed)
  <2>1. PICK compressed \in Compressions(context) : Compress(compressed)
    BY <1>3
  <2>2. compressed \in Seq(Message)
    BY Compressed DEF ListsOK
  <2> QED BY <2>1, <2>2 DEF Compress, ListsOK, AnchorOK, FlagsOK, CallOK
<1>4. CASE Undo
  <2> DEFINE last == SelectLastInSeq(context, LAMBDA m : m.role = "user" /\ m.kind = "plain")
  <2>1. last \in 0..Len(context) /\ Len(context) \in Nat
    BY LastRequest DEF ListsOK
  <2>2. last > 1 /\ context' = SubSeq(context, 1, last - 1)
        /\ stale' = (stale \/ anchor.count >= last)
        /\ UNCHANGED <<anchor, pending, pc, call, sent, calls>>
    BY <1>4 DEF Undo
  <2> HIDE DEF last
  <2>3. last - 1 \in 0..Len(context)
    BY <2>1, <2>2
  <2>4. context' \in Seq(Message)
    BY <2>2, <2>3, FrontType DEF ListsOK
  <2> QED BY <2>2, <2>4 DEF ListsOK, AnchorOK, FlagsOK, CallOK
<1>5. CASE Clear
  <2>1. SubSeq(context, 1, 1) \in Seq(Message)
    <3>1. 1 \in 0..Len(context)
      BY <1>5 DEF Clear, ListsOK
    <3> QED BY <3>1, FrontType DEF ListsOK
  <2> QED BY <1>5, <2>1 DEF Clear, ListsOK, AnchorOK, Anchors, FlagsOK, CallOK
<1>6. CASE CallModel \/ Summarise
  <2>1. PICK job \in Jobs, messages \in Seq(Message) : BeginCall(job, messages)
    <3>1. <<>> \in Seq(Message) /\ <<System, User("plain", 2, 0)>> \in Seq(Message)
      BY Written
    <3> QED BY <1>6, <3>1 DEF CallModel, Summarise, Jobs
  <2>2. Running([NoCall EXCEPT !.job = job, !.messages = messages])
    <3> DEFINE new == [NoCall EXCEPT !.job = job, !.messages = messages]
    <3>1. /\ new \in Locals /\ new.job = job /\ new.attempt = 0 /\ new.giveUps = 0
          /\ new.text = 0 /\ new.fed = 0
      BY <2>1 DEF NoCall, Locals
    <3> HIDE DEF new
    <3>2. 0 \in 0..MaxRetries[job] /\ 0 \in 0..(GiveUp - 1) /\ 0 \in 0..MaxTokens
      <4>1. MaxRetries[job] \in Nat
        BY <2>1, CallAssumption
      <4> QED BY <4>1, CallAssumption
    <3>3. Running(new)
      BY <2>1, <3>1, <3>2 DEF Running
    <3> QED BY <3>3 DEF new
  <2>3. calls + 1 \in 0..MaxCalls
    BY <1>0, <2>1 DEF BeginCall, FlagsOK
  <2> QED BY <2>1, <2>2, <2>3 DEF BeginCall, store, ListsOK, AnchorOK, FlagsOK, CallOK
<1> QED BY <1>1, <1>2, <1>3, <1>4, <1>5, <1>6 DEF Between

LEMMA InCallTyped ==
  ASSUME TypeParts, InCall
  PROVE  TypeParts'
<1> USE DEF TypeParts
<1>0. <<>> \in Seq(Message)
  OBVIOUS
<1>1. CASE \E elapsed \in BOOLEAN : Attempt(elapsed)
  <2> DEFINE g == GuardedList
  <2>1. pc = "attempt" /\ Running(call) /\ Working \in Seq(Message)
    BY <1>1 DEF Attempt, CallOK, Running, Locals, ListsOK, Working
  <2>2. g.list \in Seq(Message)
    <3>1. Prepare(Working) \in Seq(Message)
      BY <2>1, Prepared
    <3>2. \A a \in Anchors : Guarded(a, Prepare(Working), Limit).list \in Seq(Message)
      BY <3>1, GuardedProps DEF Alike
    <3>3. (IF call.job = "main" THEN anchor ELSE NoAnchor) \in Anchors
      BY DEF AnchorOK, Anchors
    <3> QED BY <3>2, <3>3 DEF GuardedList, Limit
  <2>3. /\ context' \in {g.list, context} /\ anchor' \in {anchor, NoAnchor}
        /\ UNCHANGED <<pending, stale, calls>>
        /\ \/ sent' = g.list /\ pc' = "sent" /\ call' = call
           \/ Raise
    BY <1>1 DEF Attempt, PersistPruned
  <2> HIDE DEF g
  <2>4. ListsOK' /\ AnchorOK'
    BY <1>0, <2>2, <2>3 DEF ListsOK, AnchorOK, Anchors, Raise, Return
  <2>5. FlagsOK' /\ CallOK'
    BY <2>1, <2>3 DEF FlagsOK, CallOK, Raise, Return
  <2> QED BY <2>4, <2>5
<1>2. CASE \/ \E kind \in Transients : Transient(kind)
           \/ Fatal \/ Overflow \/ Unencodable \/ TooShort
  <2>1. pc = "sent" /\ Running(call) /\ Working \in Seq(Message)
        /\ UNCHANGED <<store, calls>>
    <3>1. pc = "sent" /\ UNCHANGED <<store, calls>>
      BY <1>2 DEF Transient, Fatal, Overflow, Unencodable, TooShort, MayFail
    <3> QED BY <3>1 DEF CallOK, Running, Locals, ListsOK, Working
  <2>2. Raise \/ \E locals : Running(locals) /\ locals.job = call.job
                              /\ locals.attempt = call.attempt /\ NextAttempt(locals)
    <3>1. CASE \E kind \in Transients : Transient(kind)
      BY <2>1, <3>1 DEF Transient
    <3>2. CASE Fatal
      BY <3>2 DEF Fatal
    <3>3. CASE Unencodable
      <4> DEFINE locals == [call EXCEPT !.sanitised = TRUE]
      <4>1. Running(locals) /\ locals.job = call.job /\ locals.attempt = call.attempt
        BY <2>1, Changed DEF Running, Locals
      <4> QED BY <3>3, <4>1 DEF Unencodable
    <3>4. CASE TooShort
      BY <2>1, <3>4 DEF TooShort
    <3>5. CASE Overflow
      <4>1. ASSUME NEW list \in Seq(Message), NextAttempt(Recover(list))
            PROVE  \E locals : Running(locals) /\ locals.job = call.job
                              /\ locals.attempt = call.attempt /\ NextAttempt(locals)
        <5>1. Running(Recover(list)) /\ Recover(list).job = call.job
              /\ Recover(list).attempt = call.attempt
          BY <2>1, <4>1, Changed DEF Recover, Running, Locals
        <5> QED BY <4>1, <5>1
      <4>2. CASE OverflowRedacted
        BY <2>1, <4>1, <4>2, RedactedProps DEF OverflowRedacted
      <4>3. CASE \E compressed \in Compressions(Working) : OverflowCompressed(compressed)
        BY <2>1, <4>1, <4>3, Compressed DEF OverflowCompressed
      <4>4. CASE OverflowUnrecovered
        <5> DEFINE locals == [call EXCEPT !.giveUps = @ + 1]
        <5>1. call.giveUps # GiveUp - 1 =>
                Running(locals) /\ locals.job = call.job /\ locals.attempt = call.attempt
          BY <2>1, Changed DEF Running, Locals
        <5> HIDE DEF locals
        <5>2. Raise \/ NextAttempt(call) \/ (call.giveUps # GiveUp - 1 /\ NextAttempt(locals))
          BY <4>4 DEF OverflowUnrecovered, locals
        <5> QED BY <2>1, <5>1, <5>2
      <4> QED BY <3>5, <4>2, <4>3, <4>4 DEF Overflow
    <3> QED BY <1>2, <3>1, <3>2, <3>3, <3>4, <3>5
  <2>3. pc' \in {"idle", "attempt"} /\ sent' = <<>> /\ CallOK'
    BY <2>2, NextAttemptRuns, ReturnType DEF Raise
  <2> QED BY <1>0, <2>1, <2>3 DEF store, ListsOK, AnchorOK, FlagsOK
<1>3. CASE NoVision
  <2> DEFINE seen == WithoutImages(Last(context))
             stripped(list) == [call EXCEPT !.messages = list, !.compressed = TRUE]
  <2>1. pc = "sent" /\ Running(call) /\ Working \in Seq(Message)
        /\ UNCHANGED <<anchor, pending, stale, calls>>
    BY <1>3 DEF NoVision, MayFail, CallOK, Running, Locals, ListsOK, Working
  <2>2. ASSUME NEW list \in Seq(Message), NextAttempt(stripped(list))
        PROVE  pc' \in {"idle", "attempt"} /\ sent' = <<>> /\ CallOK'
    <3>1. Running(stripped(list)) /\ stripped(list).job = call.job
          /\ stripped(list).attempt = call.attempt
      BY <2>1, <2>2, Changed DEF Running, Locals
    <3> HIDE DEF stripped
    <3> QED BY <2>2, <3>1, NextAttemptRuns
  <2>3. CASE call.job = "main" /\ EndsWithImage(context)
    <3>1. context' = Append(Front(context), seen) /\ NextAttempt(stripped(context'))
      BY <1>3, <2>3 DEF NoVision
    <3>2. Front(context) \in Seq(Message) /\ seen \in Message
      <4>1. Len(context) - 1 \in 0..Len(context) /\ Last(context) \in Message
        BY <2>3 DEF EndsWithImage, ListsOK, Last
      <4> QED BY <4>1, FrontType, WithoutImagesProps DEF Front, ListsOK
    <3> HIDE DEF seen, stripped
    <3>3. context' \in Seq(Message)
      BY <3>1, <3>2, AppendProperties
    <3>4. pc' \in {"idle", "attempt"} /\ sent' = <<>> /\ CallOK'
      BY <2>2, <3>1, <3>3
    <3> QED BY <1>0, <2>1, <3>3, <3>4 DEF ListsOK, AnchorOK, FlagsOK
  <2>4. CASE ~(call.job = "main" /\ EndsWithImage(context))
    <3>1. context' = context /\ (Raise \/ NextAttempt(stripped(StripImages(Working))))
      BY <1>3, <2>4 DEF NoVision
    <3>2. StripImages(Working) \in Seq(Message)
      BY <2>1, StripImagesProps
    <3> HIDE DEF stripped
    <3>3. pc' \in {"idle", "attempt"} /\ sent' = <<>> /\ CallOK'
      BY <2>2, <3>1, <3>2, ReturnType DEF Raise
    <3> QED BY <1>0, <2>1, <3>1, <3>3 DEF ListsOK, AnchorOK, FlagsOK
  <2> QED BY <2>3, <2>4
<1>4. CASE \E kind \in {"text", "reasoning"} : Chunk(kind)
  <2>1. PICK kind \in {"text", "reasoning"} : Chunk(kind)
    BY <1>4
  <2>2. pc = "sent" /\ Running(call) /\ call.fed < MaxTokens
        /\ UNCHANGED <<store, pc, sent, calls>>
    BY <2>1 DEF Chunk, CallOK
  <2> DEFINE n == call.fed + 1
             t == IF kind = "text" THEN call.text + 1 ELSE call.text
  <2>3. n \in Nat /\ t \in Nat /\ n \in 0..MaxTokens /\ t <= n
    BY <2>2, CallAssumption DEF Running, Locals
  <2>4. call' = [call EXCEPT !.fed = n, !.text = t]
    BY <2>1 DEF Chunk
  <2> HIDE DEF n, t
  <2>5. Running(call')
    BY <2>2, <2>3, <2>4 DEF Running, Locals
  <2> QED BY <2>2, <2>5 DEF store, ListsOK, AnchorOK, FlagsOK, CallOK
<1>5. CASE StreamAborts \/ Reply
  <2>1. /\ context' = Append(context, Assistant) /\ sent' = <<>> /\ pc' = "idle" /\ call' = NoCall
        /\ UNCHANGED <<anchor, pending, stale, calls>>
    BY <1>5 DEF StreamAborts, Reply, Return
  <2>2. context' \in Seq(Message)
    BY <2>1, Written, AppendProperties DEF ListsOK
  <2> QED BY <1>0, <2>1, <2>2 DEF ListsOK, AnchorOK, FlagsOK, CallOK
<1>6. CASE \E usage \in BOOLEAN : StreamEnds(usage)
  <2>1. PICK usage \in BOOLEAN : StreamEnds(usage)
    BY <1>6
  <2>2. pc = "sent" /\ Running(call) /\ call \in Locals
    BY <2>1 DEF StreamEnds, CallOK, Running
  <2>3. Synced \in Seq(Message)
    BY <2>2 DEF Synced, ListsOK, Locals
  <2>4. context' \in {Synced, Cleanup(Synced)} /\ sent' = sent
    BY <2>1 DEF StreamEnds
  <2>5. ListsOK'
    BY <2>3, <2>4, CleanupType DEF ListsOK
  <2>6. AnchorOK'
    <3>1. [count |-> Len(context), tokens |-> Exact(sent)] \in Anchors
      BY ExactNat DEF Anchors, ListsOK
    <3> QED BY <2>1, <3>1 DEF StreamEnds, AnchorOK, Anchors
  <2>7. FlagsOK'
    BY <2>1, <2>2 DEF StreamEnds, FlagsOK, Locals
  <2>8. CallOK'
    <3>1. pc' = "answered" /\ call' = [call EXCEPT !.cleaned = pending] /\ pending \in BOOLEAN
      BY <2>1 DEF StreamEnds, FlagsOK
    <3>2. Running(call')
      BY <2>2, <3>1 DEF Running, Locals
    <3> QED BY <3>1, <3>2 DEF CallOK
  <2> QED BY <2>5, <2>6, <2>7, <2>8
<1>7. CASE \E good \in BOOLEAN : SummaryEnds(good)
  <2>1. PICK good \in BOOLEAN : SummaryEnds(good)
    BY <1>7
  <2> DEFINE last == SelectLastInSeq(context, LAMBDA m : m.role = "assistant")
  <2>2. context' = [i \in 1..Len(context) |->
          IF good /\ i = last THEN [context[i] EXCEPT !.summary = TRUE] ELSE context[i]]
    BY <2>1 DEF SummaryEnds, ListsOK
  <2> HIDE DEF last
  <2>3. \A m \in Message : [m EXCEPT !.summary = TRUE] \in Message
    BY DEF Message
  <2>4. \A i \in 1..Len(context) : context[i] \in Message
    BY DEF ListsOK
  <2>5. context' \in Seq(Message)
    BY <2>2, <2>3, <2>4 DEF ListsOK
  <2>6. Return("ok") /\ UNCHANGED <<anchor, pending, stale, calls>>
    BY <2>1 DEF SummaryEnds
  <2> QED BY <2>5, <2>6, <1>0 DEF Return, ListsOK, AnchorOK, FlagsOK, CallOK
<1> QED BY <1>1, <1>2, <1>3, <1>4, <1>5, <1>6, <1>7 DEF InCall

LEMMA TypesKept ==
  ASSUME TypeInv, [Next]_vars
  PROVE  TypeInv'
<1>1. HealthInv'
  BY HealthKept DEF TypeInv
<1>2. TypeParts'
  <2>1. CASE UNCHANGED vars
    BY <2>1 DEF TypeInv, TypeParts, vars, store, ListsOK, AnchorOK, FlagsOK, CallOK
  <2> QED BY <2>1, BetweenTyped, InCallTyped DEF Next, TypeInv, TypeParts
<1> QED BY <1>1, <1>2 DEF TypeInv, TypeParts

LEMMA TypesInit == Init => TypeInv
<1> SUFFICES ASSUME Init PROVE TypeInv
  OBVIOUS
<1>1. HealthInv
  <2>1. FreshHealth \in HealthStatus /\ FreshHealth.circuit = "closed"
        /\ FreshHealth.failures = 0 /\ FreshHealth.successes = 0
    BY DEF FreshHealth, HealthStatus
  <2> QED BY <2>1, BreakerAssumption DEF Init, HealthInv, BreakerBounds
<1>2. <<System>> \in Seq(Message) /\ <<>> \in Seq(Message)
  BY Written
<1>3. 0 \in 0..MaxCalls
  BY CallAssumption
<1> QED BY <1>1, <1>2, <1>3
        DEF Init, TypeInv, ListsOK, AnchorOK, Anchors, FlagsOK, CallOK

\* The variables of a call of the model keep their types: whatever a recovery,
\* the guard or a cleanup makes of a list is a list of messages, and the locals
\* of a call stay within its retries and its tokens.
THEOREM TypeCorrect == Spec => []TypeOK
<1>1. TypeInv /\ [Next]_vars => TypeInv'
  BY TypesKept
<1>2. TypeInv => TypeOK
  BY TypeInvTypes
<1> QED BY <1>1, <1>2, TypesInit, PTL DEF Spec

-----------------------------------------------------------------------------
(* What was sent is what is kept.                                          *)
(*                                                                         *)
(* The hard case is a list that a recovery has put in the context's place: *)
(* were it pruned by the guard, the pruned context and that list would     *)
(* part, and the call would end with the list.  It is never pruned: the    *)
(* list it was made from was let pass by the guard (or has cost the agent  *)
(* its anchor), and no recovery makes a list dearer.                       *)

InMain == call.job = "main" /\ pc \in {"attempt", "sent"}

\* A list that the guard lets pass, whatever was done to it.
Good(a, list) == Headed(list) /\ Len(list) >= 2 /\ Fits(a, list)

Shaped ==
  /\ Headed(context)
  /\ anchor # NoAnchor => anchor.count >= 2
  /\ InMain => Len(context) >= 2

Unpruned ==
  InMain /\ (pc = "sent" \/ call.compressed) => Good(anchor, context) /\ Good(anchor, Working)

Carried == pc = "sent" => sent = Prepare(Working)

CallInv == Shaped /\ Unpruned /\ Carried /\ SentIsKept

LEMMA AppendHeaded ==
  ASSUME NEW s \in Seq(Message), NEW m \in Message, Headed(s)
  PROVE  Headed(Append(s, m)) /\ Len(Append(s, m)) = Len(s) + 1
BY DEF Headed

LEMMA CleanupHeaded ==
  ASSUME NEW s \in Seq(Message), Headed(s)
  PROVE  Headed(Cleanup(s))
<1> DEFINE S == {k \in Nat : \A t \in Seq(Message) :
                   Len(t) = k /\ Headed(t) => Headed(Cleanup(t))}
<1>1. 0 \in S
  <2>1. \A t \in Seq(Message) : Len(t) = 0 => ~Headed(t)
    BY DEF Headed
  <2> QED BY <2>1
<1>2. ASSUME NEW k \in Nat, k \in S PROVE k + 1 \in S
  <2> SUFFICES ASSUME NEW t \in Seq(Message), Len(t) = k + 1, Headed(t)
               PROVE  Headed(Cleanup(t))
    OBVIOUS
  <2>1. PICK c \in Seq(Message), m \in Message :
          /\ t = Append(c, m) /\ Len(t) = Len(c) + 1 /\ t[Len(t)] = m
          /\ \A i \in 1..Len(c) : t[i] = c[i]
    <3>1. t # <<>>
      BY <1>2
    <3> QED BY <3>1, LastSplits
  <2>2. CASE c = <<>>
    <3>1. m.role = "system" /\ m.kind = "plain" /\ t[1] = m
      BY <2>1, <2>2 DEF Headed
    <3>2. Cleanup(t) = Append(<<>>, m)
      BY <2>1, <2>2, <3>1, CleanupAppend, CleanupEmpty
    <3>3. Append(<<>>, m) # <<>> /\ Append(<<>>, m)[1] = m
      BY <2>1
    <3> QED BY <3>1, <3>2, <3>3 DEF Headed
  <2>3. CASE c # <<>>
    <3>1. Headed(c)
      BY <2>1, <2>3 DEF Headed
    <3>2. Headed(Cleanup(c)) /\ Cleanup(c) \in Seq(Message)
      BY <1>2, <2>1, <3>1, CleanupType
    <3>3. Cleanup(t) \in {Cleanup(c), Append(Cleanup(c), m)}
      BY <2>1, CleanupAppend
    <3> QED BY <2>1, <3>2, <3>3, AppendHeaded
  <2> QED BY <2>2, <2>3
<1> HIDE DEF S
<1>3. \A k \in Nat : k \in S
  BY <1>1, <1>2, Induction
<1> QED BY <1>3 DEF S

LEMMA CheaperGood ==
  ASSUME NEW a \in Anchors, NEW s \in Seq(Message), NEW t \in Seq(Message),
         Good(a, t), Cheaper(s, t), Headed(s)
  PROVE  Good(a, s)
BY FitsMonotone DEF Good, Cheaper

LEMMA ReturnKeeps ==
  ASSUME NEW how, Return(how), Shaped, Headed(context'), anchor' \in {anchor, NoAnchor}
  PROVE  CallInv'
<1>1. pc' = "idle" /\ call' = NoCall
  BY DEF Return
<1> QED BY <1>1 DEF CallInv, Shaped, Unpruned, Carried, SentIsKept, InMain

\* An attempt that follows on a failed one.
LEMMA RetryKeeps ==
  ASSUME FlagsOK, ListsOK, Shaped, NEW locals, Running(locals), locals.job = call.job,
         locals.attempt = call.attempt, NextAttempt(locals), anchor' = anchor,
         Headed(context'), call.job = "main" => Len(context') >= 2,
         locals.job = "main" /\ locals.compressed =>
           Good(anchor, context') /\ Good(anchor, locals.messages)
  PROVE  CallInv'
<1>1. /\ pc' \in {"idle", "attempt"} /\ CallOK'
      /\ pc' = "attempt" => /\ call'.job = locals.job /\ call'.messages = locals.messages
                            /\ call'.compressed = locals.compressed
  BY NextAttemptRuns
<1>2. Shaped'
  BY <1>1 DEF Shaped, InMain
<1>3. InMain' /\ call'.compressed =>
        /\ Working' = locals.messages /\ locals.job = "main" /\ locals.compressed
  BY <1>1 DEF InMain, Working
<1>4. Unpruned'
  BY <1>1, <1>3 DEF Unpruned
<1>5. Carried' /\ SentIsKept'
  BY <1>1 DEF Carried, SentIsKept
<1> QED BY <1>2, <1>4, <1>5 DEF CallInv

LEMMA BetweenKeepsCall ==
  ASSUME TypeInv, CallInv, Between
  PROVE  CallInv'
<1> USE DEF TypeInv
<1>0. Headed(context) /\ context \in Seq(Message)
  BY DEF CallInv, Shaped, ListsOK
<1>1. CASE \E message \in Requests : Ask(message)
  <2>1. PICK message \in Requests : Ask(message)
    BY <1>1
  <2>2. message \in Message
    BY CallAssumption
  <2>3. Headed(context')
    BY <1>0, <2>1, <2>2, AppendHeaded DEF Ask
  <2> QED BY <2>1, <2>3 DEF Ask, CallInv, Shaped, Unpruned, Carried, SentIsKept, InMain
<1>2. CASE \E putOff \in BOOLEAN : CloseTurn(putOff)
  <2>1. context' \in {context, Cleanup(context)} /\ pc = "idle" /\ UNCHANGED <<anchor, pc>>
    BY <1>2 DEF CloseTurn
  <2>2. Headed(context')
    BY <1>0, <2>1, CleanupHeaded
  <2> QED BY <2>1, <2>2 DEF CallInv, Shaped, Unpruned, Carried, SentIsKept, InMain
<1>3. CASE \E compressed \in Compressions(context) : Compress(compressed)
  <2>1. PICK compressed \in Compressions(context) : Compress(compressed)
    BY <1>3
  <2>2. Headed(context')
    BY <1>0, <2>1, Compressed DEF Compress
  <2> QED BY <2>1, <2>2 DEF Compress, CallInv, Shaped, Unpruned, Carried, SentIsKept, InMain
<1>4. CASE Undo
  <2> DEFINE last == SelectLastInSeq(context, LAMBDA m : m.role = "user" /\ m.kind = "plain")
  <2>1. last \in 0..Len(context) /\ Len(context) \in Nat
    BY <1>0, LastRequest
  <2>2. last > 1 /\ context' = SubSeq(context, 1, last - 1) /\ pc = "idle" /\ UNCHANGED <<anchor, pc>>
    BY <1>4 DEF Undo
  <2> HIDE DEF last
  <2>3. last - 1 \in 0..Len(context) /\ 1 \in 1..(last - 1) /\ last - 1 > 0
    BY <2>1, <2>2
  <2>4. context' \in Seq(Message) /\ Len(context') = last - 1 /\ context'[1] = context[1]
    BY <1>0, <2>2, <2>3, FrontType
  <2>5. Headed(context')
    BY <1>0, <2>3, <2>4 DEF Headed
  <2> QED BY <2>2, <2>5 DEF CallInv, Shaped, Unpruned, Carried, SentIsKept, InMain
<1>5. CASE Clear
  <2>1. 1 \in 0..Len(context) /\ 1 \in 1..1
    BY <1>0, <1>5 DEF Clear
  <2>2. context' \in Seq(Message) /\ Len(context') = 1 /\ context'[1] = context[1]
    BY <1>0, <1>5, <2>1, FrontType DEF Clear
  <2>3. Headed(context')
    <3>1. \A t \in Seq(Message) : Len(t) = 1 => t # <<>>
      OBVIOUS
    <3>2. context' # <<>>
      BY <2>2, <3>1
    <3> QED BY <1>0, <2>2, <3>2 DEF Headed
  <2> QED BY <1>5, <2>3 DEF Clear, CallInv, Shaped, Unpruned, Carried, SentIsKept, InMain
<1>6. CASE CallModel
  <2>1. pc' = "attempt" /\ call' = [NoCall EXCEPT !.job = "main", !.messages = <<>>]
        /\ UNCHANGED <<context, anchor>> /\ Last(context).role = "user"
    BY <1>6 DEF CallModel, BeginCall, store, Ready
  <2>2. call'.job = "main" /\ call'.compressed = FALSE
    BY <2>1 DEF NoCall
  <2>3. Len(context) >= 2
    <3>1. Len(context) \in Nat /\ Len(context) # 0 /\ Len(context) # 1
      BY <1>0, <2>1 DEF Headed, Last
    <3>2. \A n \in Nat : n # 0 /\ n # 1 => n >= 2
      OBVIOUS
    <3> QED BY <3>1, <3>2
  <2> QED BY <2>1, <2>2, <2>3 DEF CallInv, Shaped, Unpruned, Carried, SentIsKept, InMain
<1>7. CASE Summarise
  <2>1. pc' = "attempt" /\ UNCHANGED <<context, anchor>>
        /\ call' = [NoCall EXCEPT !.job = "summary", !.messages = <<System, User("plain", 2, 0)>>]
    BY <1>7 DEF Summarise, BeginCall, store
  <2>2. call'.job = "summary"
    BY <2>1 DEF NoCall
  <2> QED BY <2>1, <2>2 DEF CallInv, Shaped, Unpruned, Carried, SentIsKept, InMain
<1> QED BY <1>1, <1>2, <1>3, <1>4, <1>5, <1>6, <1>7 DEF Between

\* An attempt, where the guard looks at the list.
LEMMA AttemptKeepsCall ==
  ASSUME TypeInv, CallInv, NEW elapsed, Attempt(elapsed)
  PROVE  CallInv'
<1> DEFINE a == IF call.job = "main" THEN anchor ELSE NoAnchor
           s == Prepare(Working)
           g == GuardedList
<1>1. pc = "attempt" /\ Running(call) /\ Working \in Seq(Message) /\ call.job \in Jobs
      /\ context \in Seq(Message)
  BY WorkingType DEF Attempt, Running, TypeInv, ListsOK
<1>2. s \in Seq(Message) /\ Len(s) = Len(Working) /\ a \in Anchors
  BY <1>1, Prepared DEF TypeInv, AnchorOK, Anchors
<1>3. g = Guarded(a, s, Limit)
  BY DEF GuardedList, Limit
<1>4. /\ Alike(g.list, s) /\ g.persist \in BOOLEAN /\ g.sends \in BOOLEAN
      /\ g.sends /\ ~g.persist => g.list = s /\ Fits(a, s)
      /\ Fits(a, s) => g.list = s /\ ~g.persist /\ g.sends
  <2> HIDE DEF a, s, g
  <2> QED BY <1>2, <1>3, GuardedProps
<1>5. IF g.persist THEN context' = g.list /\ anchor' = NoAnchor
                   ELSE context' = context /\ anchor' = anchor
  BY DEF Attempt, PersistPruned
<1>6. IF g.sends THEN sent' = g.list /\ pc' = "sent" /\ call' = call ELSE Return("raised")
  BY DEF Attempt, Raise
<1>7. call.job = "main" => Headed(Working) /\ Len(Working) >= 2
  <2>1. CASE call.compressed
    BY <1>1, <2>1 DEF CallInv, Unpruned, Good, InMain
  <2>2. CASE ~call.compressed
    BY <1>1, <2>2 DEF CallInv, Shaped, InMain, Working
  <2> QED BY <2>1, <2>2
<1>8. g.persist => call.job = "main" /\ ~call.compressed
  <2>1. CASE call.job # "main"
    <3>1. Fits(a, s)
      BY <2>1 DEF Fits, Anchored
    <3> QED BY <1>4, <3>1
  <2>2. CASE call.job = "main" /\ call.compressed
    <3>1. Fits(anchor, Working)
      BY <1>1, <2>2 DEF CallInv, Unpruned, Good, InMain
    <3>2. Fits(a, s)
      BY <1>1, <2>2, <3>1, FitsPrepared DEF TypeInv, AnchorOK
    <3> QED BY <1>4, <3>2
  <2> QED BY <2>1, <2>2
<1>9. call.job = "main" => Headed(s)
  <2> SUFFICES ASSUME call.job = "main" PROVE Headed(s)
    OBVIOUS
  <2>1. 1 \in 1..Len(Working) /\ Working[1] \in Message
    BY <1>1, <1>7
  <2>2. s[1] = [Working[1] EXCEPT !.summary = FALSE]
    BY <1>1, <2>1, Prepared
  <2>3. s[1].role = Working[1].role /\ s[1].kind = Working[1].kind
    BY <2>1, <2>2 DEF Message
  <2> HIDE DEF s
  <2>4. \A t \in Seq(Message) : 1 \in 1..Len(t) => t # <<>>
    OBVIOUS
  <2> QED BY <1>2, <1>7, <2>1, <2>3, <2>4 DEF Headed
<1>10. Headed(context') /\ (call.job = "main" => Len(context') >= 2)
  <2>1. CASE g.persist
    <3>1. context' = g.list /\ call.job = "main" /\ Alike(g.list, s) /\ Len(g.list) = Len(s)
      BY <1>4, <1>5, <1>8, <2>1 DEF Alike
    <3> HIDE DEF s, g, a
    <3> QED BY <1>2, <1>7, <1>9, <3>1, AlikeHeaded
  <2>2. CASE ~g.persist
    BY <1>1, <1>5, <2>2 DEF CallInv, Shaped, InMain
  <2> QED BY <2>1, <2>2
<1>11. anchor' \in {anchor, NoAnchor}
  BY <1>5
<1>12. CASE ~g.sends
  <2>1. Return("raised")
    BY <1>6, <1>12
  <2> QED BY <1>10, <1>11, <2>1, ReturnKeeps DEF CallInv
<1>13. CASE g.sends /\ g.persist
  <2>1. /\ call.job = "main" /\ ~call.compressed /\ call' = call /\ pc' = "sent"
        /\ context' = g.list /\ anchor' = NoAnchor /\ sent' = g.list
    BY <1>5, <1>6, <1>8, <1>13
  <2>2. Prepare(g.list) = g.list
    <3> HIDE DEF g
    <3> QED BY <1>1, <1>4, PreparedAlike
  <2>3. Working' = context'
    BY <2>1 DEF Working
  <2>4. Fits(anchor', context') /\ Fits(anchor', Working')
    BY <2>1 DEF Fits, Anchored
  <2> HIDE DEF g
  <2>5. Shaped' /\ Unpruned'
    BY <1>10, <2>1, <2>3, <2>4 DEF Shaped, Unpruned, Good, InMain
  <2>6. Carried' /\ SentIsKept'
    BY <2>1, <2>2, <2>3 DEF Carried, SentIsKept
  <2> QED BY <2>5, <2>6 DEF CallInv
<1>14. CASE g.sends /\ ~g.persist
  <2>1. /\ call' = call /\ pc' = "sent" /\ context' = context /\ anchor' = anchor
        /\ sent' = s /\ Fits(a, s)
    BY <1>4, <1>5, <1>6, <1>14
  <2>2. Working' = Working
    BY <2>1 DEF Working
  <2>3. call.job = "main" => Good(anchor, Working) /\ Good(anchor, context)
    <3>1. call.job = "main" => Fits(anchor, Working)
      BY <1>1, <2>1, FitsPrepared DEF TypeInv, AnchorOK
    <3>2. CASE call.compressed
      BY <1>1, <1>7, <3>1, <3>2 DEF CallInv, Unpruned, Good, InMain
    <3>3. CASE ~call.compressed
      BY <1>1, <1>7, <3>1, <3>3 DEF Good, Working
    <3> QED BY <3>2, <3>3
  <2>4. Shaped'
    BY <1>10, <2>1 DEF CallInv, Shaped, InMain
  <2>5. Unpruned'
    BY <2>1, <2>2, <2>3 DEF Unpruned, InMain
  <2>6. Carried' /\ SentIsKept'
    BY <2>1, <2>2 DEF Carried, SentIsKept
  <2> QED BY <2>4, <2>5, <2>6 DEF CallInv
<1> QED BY <1>4, <1>12, <1>13, <1>14

\* What comes back, and what a recovery makes of it.
LEMMA FailureKeepsCall ==
  ASSUME TypeInv, CallInv,
         \/ \E kind \in Transients : Transient(kind)
         \/ Fatal \/ Overflow \/ Unencodable \/ TooShort
  PROVE  CallInv'
<1>1. pc = "sent" /\ UNCHANGED <<context, anchor>>
  BY DEF Transient, Fatal, Overflow, Unencodable, TooShort, MayFail, store
<1>2. Running(call) /\ call \in Locals /\ Working \in Seq(Message) /\ anchor \in Anchors
      /\ FlagsOK /\ ListsOK /\ Shaped /\ Headed(context) /\ (anchor # NoAnchor => anchor.count >= 2)
  BY <1>1, WorkingType DEF TypeInv, AnchorOK, CallInv, Shaped
<1>3. call.job = "main" =>
        Good(anchor, context) /\ Good(anchor, Working) /\ Len(context) >= 2
        /\ (call.compressed => call.messages = Working)
  BY <1>1 DEF CallInv, Unpruned, InMain, Good, Working
<1>4. ASSUME NEW locals, Running(locals), locals.job = call.job, locals.attempt = call.attempt,
             NextAttempt(locals),
             locals.job = "main" /\ locals.compressed => Good(anchor, locals.messages)
      PROVE  CallInv'
  <2>1. Headed(context') /\ anchor' = anchor /\ (call.job = "main" => Len(context') >= 2)
    BY <1>1, <1>2, <1>3
  <2>2. locals.job = "main" /\ locals.compressed =>
          Good(anchor, context') /\ Good(anchor, locals.messages)
    BY <1>1, <1>3, <1>4
  <2> QED BY <1>2, <1>4, <2>1, <2>2, RetryKeeps
<1>5. ASSUME NEW list \in Seq(Message), NextAttempt(Recover(list)),
             call.job = "main" => Good(anchor, list)
      PROVE  CallInv'
  <2> DEFINE locals == Recover(list)
  <2>1. Running(locals) /\ locals.job = call.job /\ locals.attempt = call.attempt
        /\ locals.messages = list
    BY <1>2, <1>5, Changed DEF Recover, Locals
  <2> HIDE DEF locals
  <2>2. NextAttempt(locals)
    BY <1>5 DEF locals
  <2> QED BY <1>4, <1>5, <2>1, <2>2
<1>6. NextAttempt(call) => CallInv'
  BY <1>2, <1>3, <1>4
<1>7. Raise => CallInv'
  BY <1>1, <1>2, ReturnKeeps DEF Raise
<1>8. CASE (\E kind \in Transients : Transient(kind)) \/ Fatal \/ TooShort
  BY <1>6, <1>7, <1>8 DEF Transient, Fatal, TooShort
<1>9. CASE Unencodable
  <2> DEFINE locals == [call EXCEPT !.sanitised = TRUE]
  <2>1. Running(locals) /\ locals.job = call.job /\ locals.attempt = call.attempt
        /\ locals.messages = call.messages /\ locals.compressed = call.compressed
    BY <1>2, Changed DEF Locals
  <2> HIDE DEF locals
  <2>2. Raise \/ NextAttempt(locals)
    BY <1>9 DEF Unencodable, locals
  <2> QED BY <1>3, <1>4, <1>7, <2>1, <2>2
<1>10. CASE Overflow
  <2>1. CASE OverflowRedacted
    <3>1. Redacted(Working) \in Seq(Message) /\ NextAttempt(Recover(Redacted(Working)))
      BY <1>2, <2>1, RedactedProps DEF OverflowRedacted
    <3>2. call.job = "main" => Good(anchor, Redacted(Working))
      <4>1. call.job = "main" => Headed(Working)
        BY <1>3 DEF Good
      <4> QED BY <1>2, <1>3, <4>1, RedactedProps, CheaperGood
    <3> QED BY <1>5, <3>1, <3>2
  <2>2. CASE \E compressed \in Compressions(Working) : OverflowCompressed(compressed)
    <3>1. PICK c \in Compressions(Working) : OverflowCompressed(c)
      BY <2>2
    <3>2. call.job = "main" /\ NextAttempt(Recover(c)) /\ c \in Seq(Message)
      BY <1>2, <3>1, Compressed DEF OverflowCompressed
    <3>3. Good(anchor, c)
      BY <1>2, <1>3, <3>1, <3>2, Compressed DEF Good
    <3> QED BY <1>5, <3>2, <3>3
  <2>3. CASE OverflowUnrecovered
    <3> DEFINE locals == [call EXCEPT !.giveUps = @ + 1]
    <3>1. call.giveUps # GiveUp - 1 => Running(locals)
      BY <1>2, Changed DEF Locals
    <3>2. locals.job = call.job /\ locals.attempt = call.attempt
          /\ locals.messages = call.messages /\ locals.compressed = call.compressed
      BY <1>2 DEF Locals
    <3> HIDE DEF locals
    <3>3. Raise \/ NextAttempt(call) \/ (call.giveUps # GiveUp - 1 /\ NextAttempt(locals))
      BY <2>3 DEF OverflowUnrecovered, locals
    <3> QED BY <1>3, <1>4, <1>6, <1>7, <3>1, <3>2, <3>3
  <2> QED BY <1>7, <1>10, <2>1, <2>2, <2>3 DEF Overflow
<1> QED BY <1>8, <1>9, <1>10

LEMMA NoVisionKeepsCall ==
  ASSUME TypeInv, CallInv, NoVision
  PROVE  CallInv'
<1> DEFINE seen == WithoutImages(Last(context))
           stripped(list) == [call EXCEPT !.messages = list, !.compressed = TRUE]
<1>1. pc = "sent" /\ anchor' = anchor
  BY DEF NoVision, MayFail
<1>2. Running(call) /\ call \in Locals /\ Working \in Seq(Message) /\ anchor \in Anchors
      /\ FlagsOK /\ ListsOK /\ Shaped /\ Headed(context) /\ context \in Seq(Message)
  BY <1>1, WorkingType DEF TypeInv, AnchorOK, ListsOK, CallInv, Shaped
<1>3. call.job = "main" =>
        Good(anchor, context) /\ Good(anchor, Working) /\ Len(context) >= 2
  BY <1>1 DEF CallInv, Unpruned, InMain, Good
<1>4. ASSUME NEW list \in Seq(Message), NextAttempt(stripped(list)), Headed(context'),
             call.job = "main" => Good(anchor, context') /\ Good(anchor, list)
      PROVE  CallInv'
  <2> DEFINE locals == stripped(list)
  <2>1. Running(locals) /\ locals.job = call.job /\ locals.attempt = call.attempt
        /\ locals.messages = list
    BY <1>2, <1>4, Changed DEF Locals
  <2>2. NextAttempt(locals)
    BY <1>4
  <2> HIDE DEF locals, stripped
  <2>3. call.job = "main" => Len(context') >= 2
    BY <1>4 DEF Good
  <2> QED BY <1>1, <1>2, <1>4, <2>1, <2>2, <2>3, RetryKeeps
<1>5. CASE call.job = "main" /\ EndsWithImage(context)
  <2>1. context' = Append(Front(context), seen) /\ NextAttempt(stripped(context'))
    BY <1>5 DEF NoVision
  <2> DEFINE n == Len(context) - 1
             new == Append(Front(context), seen)
  <2>2. n \in Nat /\ n >= 1 /\ n \in 0..Len(context) /\ Len(context) = n + 1
        /\ Last(context) = context[n + 1] /\ context[n + 1] \in Message
        /\ \A i \in 1..(n + 1) : i \in 1..n \/ i = n + 1
    BY <1>2, <1>3, <1>5 DEF Last
  <2>3. Front(context) \in Seq(Message) /\ Len(Front(context)) = n
        /\ \A i \in 1..n : Front(context)[i] = context[i]
    <3> HIDE DEF n
    <3>1. Len(context) - 1 = n
      BY <2>2
    <3> QED BY <1>2, <2>2, <3>1, FrontType DEF Front
  <2>4. seen \in Message /\ Price(seen) <= Price(context[n + 1])
    BY <2>2, WithoutImagesProps
  <2> HIDE DEF n, seen
  <2>5. new \in Seq(Message) /\ Len(new) = n + 1 /\ new[n + 1] = seen
        /\ \A i \in 1..n : new[i] = context[i]
    BY <2>2, <2>3, <2>4
  <2> HIDE DEF new
  <2>6. \A i \in 1..n : Price(context[i]) \in Nat
    <3>1. \A i \in 1..n : context[i] \in Message
      BY <1>2, <2>2
    <3> QED BY <3>1, PriceNat
  <2>7. Cheaper(new, context)
    <3>1. \A i \in 1..(n + 1) : Price(new[i]) <= Price(context[i])
      BY <2>2, <2>4, <2>5, <2>6
    <3> QED BY <2>2, <2>5, <3>1 DEF Cheaper
  <2>8. Headed(new)
    <3>1. new[1] = context[1] /\ new # <<>>
      <4>1. \A t \in Seq(Message) : Len(t) = n + 1 => t # <<>>
        BY <2>2
      <4> QED BY <2>2, <2>5, <4>1
    <3> QED BY <1>2, <3>1 DEF Headed
  <2>9. Good(anchor, new)
    BY <1>2, <1>3, <1>5, <2>5, <2>7, <2>8, CheaperGood
  <2>10. context' = new
    BY <2>1 DEF new
  <2> HIDE DEF stripped
  <2> QED BY <1>4, <2>1, <2>5, <2>8, <2>9, <2>10
<1>6. CASE ~(call.job = "main" /\ EndsWithImage(context))
  <2>1. context' = context /\ (Raise \/ NextAttempt(stripped(StripImages(Working))))
    BY <1>6 DEF NoVision
  <2>2. StripImages(Working) \in Seq(Message)
    BY <1>2, StripImagesProps
  <2>3. call.job = "main" => Good(anchor, StripImages(Working))
    <3>1. call.job = "main" => Headed(Working)
      BY <1>3 DEF Good
    <3> QED BY <1>2, <1>3, <3>1, StripImagesProps, CheaperGood
  <2> HIDE DEF stripped
  <2>4. CASE NextAttempt(stripped(StripImages(Working)))
    BY <1>2, <1>3, <1>4, <2>1, <2>2, <2>3, <2>4
  <2>5. CASE Raise
    BY <1>1, <1>2, <2>1, <2>5, ReturnKeeps DEF Raise
  <2> QED BY <2>1, <2>4, <2>5
<1> QED BY <1>5, <1>6

LEMMA AnswerKeepsCall ==
  ASSUME TypeInv, CallInv,
         \/ \E kind \in {"text", "reasoning"} : Chunk(kind)
         \/ StreamAborts \/ Reply
         \/ \E usage \in BOOLEAN : StreamEnds(usage)
         \/ \E good \in BOOLEAN : SummaryEnds(good)
  PROVE  CallInv'
<1>0. context \in Seq(Message) /\ sent \in Seq(Message) /\ Headed(context) /\ Shaped
  BY DEF TypeInv, ListsOK, CallInv, Shaped
<1>1. CASE \E kind \in {"text", "reasoning"} : Chunk(kind)
  <2>1. PICK kind \in {"text", "reasoning"} : Chunk(kind)
    BY <1>1
  <2>2. pc = "sent" /\ UNCHANGED <<context, anchor, pc, sent>> /\ call \in Locals
    BY <2>1, WorkingType DEF Chunk, store
  <2> DEFINE n == call.fed + 1
             t == IF kind = "text" THEN call.text + 1 ELSE call.text
  <2>3. call' = [call EXCEPT !.fed = n, !.text = t]
    BY <2>1 DEF Chunk
  <2> HIDE DEF n, t
  <2>4. call'.job = call.job /\ call'.messages = call.messages /\ call'.compressed = call.compressed
    BY <2>2, <2>3 DEF Locals
  <2>5. Working' = Working
    BY <2>2, <2>4 DEF Working
  <2>6. Shaped' /\ Unpruned'
    BY <2>2, <2>4, <2>5 DEF CallInv, Shaped, Unpruned, InMain
  <2>7. Carried' /\ SentIsKept'
    BY <2>2, <2>5 DEF CallInv, Carried, SentIsKept
  <2> QED BY <2>6, <2>7 DEF CallInv
<1>2. CASE StreamAborts \/ Reply
  <2>1. /\ context' = Append(context, Assistant) /\ pc' = "idle" /\ call' = NoCall
        /\ anchor' = anchor
    BY <1>2 DEF StreamAborts, Reply, Return
  <2>2. Headed(context')
    BY <1>0, <2>1, Written, AppendHeaded
  <2> QED BY <1>0, <2>1, <2>2 DEF CallInv, Shaped, Unpruned, Carried, SentIsKept, InMain
<1>3. CASE \E usage \in BOOLEAN : StreamEnds(usage)
  <2>1. PICK usage \in BOOLEAN : StreamEnds(usage)
    BY <1>3
  <2>2. pc = "sent" /\ pc' = "answered" /\ sent' = sent /\ call.job = "main"
        /\ context' = (IF pending THEN Cleanup(Synced) ELSE Synced)
        /\ call' = [call EXCEPT !.cleaned = pending]
        /\ anchor' \in {[count |-> Len(context), tokens |-> Exact(sent)], NoAnchor}
    BY <2>1 DEF StreamEnds
  <2>3. Working \in Seq(Message) /\ call \in Locals
    BY <2>2, WorkingType
  <2>4. Synced = Working
    BY <2>2 DEF Synced, Working
  <2>5. Headed(Working) /\ Len(context) >= 2
    BY <2>2 DEF CallInv, Unpruned, Shaped, Good, InMain
  <2>6. Headed(context')
    BY <2>2, <2>3, <2>4, <2>5, CleanupHeaded
  <2>7. anchor' # NoAnchor => anchor'.count >= 2
    BY <2>2, <2>5
  <2>8. Shaped'
    BY <2>2, <2>6, <2>7 DEF Shaped, InMain
  <2>9. SentIsKept'
    <3>1. sent = Prepare(Working)
      BY <2>2 DEF CallInv, Carried
    <3>2. call'.cleaned = pending /\ pending \in BOOLEAN
      BY <2>2, <2>3 DEF Locals, TypeInv, FlagsOK
    <3>3. CASE pending
      BY <2>2, <2>3, <2>4, <3>1, <3>2, <3>3, PrepareCleanup DEF SentIsKept
    <3>4. CASE ~pending
      BY <2>2, <2>4, <3>1, <3>2, <3>4 DEF SentIsKept
    <3> QED BY <3>3, <3>4
  <2> QED BY <2>2, <2>8, <2>9 DEF CallInv, Unpruned, Carried, InMain
<1>4. CASE \E good \in BOOLEAN : SummaryEnds(good)
  <2>1. PICK good \in BOOLEAN : SummaryEnds(good)
    BY <1>4
  <2> DEFINE last == SelectLastInSeq(context, LAMBDA m : m.role = "assistant")
  <2>2. context' = [i \in 1..Len(context) |->
          IF good /\ i = last THEN [context[i] EXCEPT !.summary = TRUE] ELSE context[i]]
    BY <1>0, <2>1 DEF SummaryEnds
  <2> HIDE DEF last
  <2>3. Return("ok") /\ anchor' = anchor
    BY <2>1 DEF SummaryEnds
  <2>4. 1 \in 1..Len(context) /\ context[1] \in Message
    BY <1>0 DEF Headed
  <2>5. context'[1].role = context[1].role /\ context'[1].kind = context[1].kind
    BY <2>2, <2>4 DEF Message
  <2>6. context' # <<>>
    BY <2>2, <2>4
  <2>7. Headed(context')
    BY <1>0, <2>5, <2>6 DEF Headed
  <2> QED BY <1>0, <2>3, <2>7, ReturnKeeps
<1> QED BY <1>1, <1>2, <1>3, <1>4

LEMMA CallKept ==
  ASSUME TypeInv, CallInv, [Next]_vars
  PROVE  CallInv'
<1>1. CASE Between
  BY <1>1, BetweenKeepsCall
<1>2. CASE InCall
  <2>1. CASE \E elapsed \in BOOLEAN : Attempt(elapsed)
    BY <2>1, AttemptKeepsCall
  <2>2. CASE \/ \E kind \in Transients : Transient(kind)
             \/ Fatal \/ Overflow \/ Unencodable \/ TooShort
    BY <2>2, FailureKeepsCall
  <2>3. CASE NoVision
    BY <2>3, NoVisionKeepsCall
  <2>4. CASE \/ \E kind \in {"text", "reasoning"} : Chunk(kind)
             \/ StreamAborts \/ Reply
             \/ \E usage \in BOOLEAN : StreamEnds(usage)
             \/ \E good \in BOOLEAN : SummaryEnds(good)
    BY <2>4, AnswerKeepsCall
  <2> QED BY <1>2, <2>1, <2>2, <2>3, <2>4 DEF InCall
<1>3. CASE UNCHANGED vars
  BY <1>3 DEF vars, store, CallInv, Shaped, Unpruned, Carried, SentIsKept, InMain, Working
<1> QED BY <1>1, <1>2, <1>3 DEF Next

LEMMA CallInit == Init => CallInv
<1> SUFFICES ASSUME Init PROVE CallInv
  OBVIOUS
<1>1. Headed(<<System>>)
  BY DEF Headed, System
<1> QED BY <1>1 DEF Init, CallInv, Shaped, Unpruned, Carried, SentIsKept, InMain

\* After a successful call the context is the list the model has answered
\* (call_llm's synchronisation of agent.context with the retry loop's list),
\* for lists of any length, any prices and thresholds, and any order of
\* overflows, compressions, redactions, stripped images and prunings.
THEOREM SentListIsKept == Spec => []SentIsKept
<1>1. Init => TypeInv /\ CallInv
  BY TypesInit, CallInit
<1>2. TypeInv /\ CallInv /\ [Next]_vars => TypeInv' /\ CallInv'
  BY TypesKept, CallKept
<1>3. CallInv => SentIsKept
  BY DEF CallInv
<1> QED BY <1>1, <1>2, <1>3, PTL DEF Spec

-----------------------------------------------------------------------------
(* The anchor's count is exact.                                            *)
(*                                                                         *)
(* What follows the messages an anchor stands for is a reply of the model: *)
(* so an undo that cuts at a request behind them leaves them alone, and so *)
(* does the agent that strips its last message, which is the user's.       *)

Priced ==
  anchor # NoAnchor /\ ~stale =>
    /\ anchor.count <= Len(context)
    /\ anchor.tokens = Exact(SubSeq(context, 1, anchor.count))
    /\ pc = "answered" => anchor.count = Len(context)
    /\ pc # "answered" =>
         anchor.count < Len(context) /\ context[anchor.count + 1].role = "assistant"

\* A step that leaves alone the messages the anchor stands for and the next one.
LEMMA PrefixPriced ==
  ASSUME TypeInv, Priced, pc # "answered", pc' # "answered", anchor' = anchor,
         context' \in Seq(Message),
         anchor # NoAnchor /\ ~stale' =>
           /\ ~stale /\ anchor.count < Len(context')
           /\ \A i \in 1..(anchor.count + 1) :
                Price(context'[i]) = Price(context[i]) /\ context'[i].role = context[i].role
  PROVE  Priced'
<1> SUFFICES ASSUME anchor # NoAnchor, ~stale'
             PROVE  /\ anchor.count < Len(context')
                    /\ anchor.tokens = Exact(SubSeq(context', 1, anchor.count))
                    /\ context'[anchor.count + 1].role = "assistant"
  <2>1. anchor' # NoAnchor /\ ~stale' => anchor # NoAnchor /\ ~stale'
    OBVIOUS
  <2>2. anchor # NoAnchor => anchor.count \in Nat /\ Len(context') \in Nat
    BY DEF TypeInv, AnchorOK, Anchors
  <2> QED BY <2>1, <2>2 DEF Priced
<1> DEFINE n == anchor.count
<1>1. n \in Nat /\ context \in Seq(Message)
  BY DEF TypeInv, AnchorOK, Anchors, ListsOK
<1>2. n < Len(context) /\ context[n + 1].role = "assistant"
      /\ anchor.tokens = Exact(SubSeq(context, 1, n))
  BY DEF Priced
<1>3. n < Len(context') /\ \A i \in 1..(n + 1) :
        Price(context'[i]) = Price(context[i]) /\ context'[i].role = context[i].role
  OBVIOUS
<1> HIDE DEF n
<1>4. SubSeq(context, 1, n) \in Seq(Message) /\ Len(SubSeq(context, 1, n)) = n
      /\ \A i \in 1..n : SubSeq(context, 1, n)[i] = context[i]
  <2>1. n \in 0..Len(context)
    BY <1>1, <1>2
  <2> QED BY <1>1, <2>1, FrontType
<1>5. SubSeq(context', 1, n) \in Seq(Message) /\ Len(SubSeq(context', 1, n)) = n
      /\ \A i \in 1..n : SubSeq(context', 1, n)[i] = context'[i]
  <2>1. 1 \in 1..(Len(context') + 1) /\ n \in (1 - 1)..Len(context')
    BY <1>1, <1>3
  <2>2. SubSeq(context', 1, n) \in Seq(Message) /\ Len(SubSeq(context', 1, n)) = n - 1 + 1
        /\ \A i \in 1..(n - 1 + 1) : SubSeq(context', 1, n)[i] = context'[1 + i - 1]
    BY <2>1, Part
  <2>3. n - 1 + 1 = n /\ \A i \in 1..n : 1 + i - 1 = i
    BY <1>1
  <2> QED BY <2>2, <2>3
<1>6. \A i \in 1..n : i \in 1..(n + 1)
  BY <1>1
<1>7. \A i \in 1..n : Price(SubSeq(context', 1, n)[i]) = Price(SubSeq(context, 1, n)[i])
  BY <1>3, <1>4, <1>5, <1>6
<1>8. Exact(SubSeq(context', 1, n)) = Exact(SubSeq(context, 1, n))
  BY <1>4, <1>5, <1>7, ExactEqual
<1>9. context'[n + 1].role = context[n + 1].role
  BY <1>1, <1>3
<1> QED BY <1>2, <1>3, <1>8, <1>9 DEF n

\* A step that touches neither the context nor the anchor.
LEMMA SamePriced ==
  ASSUME TypeInv, Priced, pc # "answered", pc' # "answered",
         anchor' = anchor, context' = context, ~stale' => ~stale
  PROVE  Priced'
BY DEF Priced

LEMMA AppendPriced ==
  ASSUME TypeInv, Priced, pc # "answered", pc' # "answered", anchor' = anchor,
         ~stale' => ~stale, NEW m \in Message, context' = Append(context, m)
  PROVE  Priced'
<1>1. context \in Seq(Message) /\ context' \in Seq(Message) /\ Len(context') = Len(context) + 1
      /\ \A i \in 1..Len(context) : context'[i] = context[i]
  BY DEF TypeInv, ListsOK
<1>2. anchor # NoAnchor /\ ~stale' =>
        /\ ~stale /\ anchor.count < Len(context')
        /\ \A i \in 1..(anchor.count + 1) : context'[i] = context[i]
  <2> SUFFICES ASSUME anchor # NoAnchor, ~stale'
               PROVE  anchor.count < Len(context') /\ \A i \in 1..(anchor.count + 1) : i \in 1..Len(context)
    BY <1>1
  <2>1. anchor.count \in Nat /\ anchor.count < Len(context) /\ Len(context) \in Nat
    BY <1>1 DEF TypeInv, AnchorOK, Anchors, Priced
  <2> QED BY <1>1, <2>1
<1> QED BY <1>1, <1>2, PrefixPriced

LEMMA BetweenPriced ==
  ASSUME TypeInv, CallInv, Priced, Between
  PROVE  Priced'
<1>0. context \in Seq(Message) /\ Len(context) \in Nat /\ stale \in BOOLEAN
      /\ (anchor # NoAnchor => anchor.count \in Nat)
  BY DEF TypeInv, ListsOK, FlagsOK, AnchorOK, Anchors
<1>1. CASE \E message \in Requests : Ask(message)
  <2>1. PICK message \in Requests : Ask(message)
    BY <1>1
  <2>2. message \in Message
    BY CallAssumption
  <2> QED BY <2>1, <2>2, AppendPriced DEF Ask
<1>2. CASE \E putOff \in BOOLEAN : CloseTurn(putOff)
  <2>1. /\ pc = "idle" /\ pc' = pc /\ anchor' = anchor
        /\ ~stale' => ~stale /\ context' = context
    <3>1. PICK putOff \in BOOLEAN : CloseTurn(putOff)
      BY <1>2
    <3>2. CASE putOff
      BY <3>1, <3>2 DEF CloseTurn
    <3>3. CASE ~putOff
      BY <3>1, <3>3 DEF CloseTurn
    <3> QED BY <3>2, <3>3
  <2>2. CASE stale'
    BY <2>2 DEF Priced
  <2>3. CASE ~stale'
    BY <2>1, <2>3, SamePriced
  <2> QED BY <2>2, <2>3
<1>3. CASE \E compressed \in Compressions(context) : Compress(compressed)
  BY <1>3 DEF Compress, Priced
<1>4. CASE Undo
  <2> DEFINE last == SelectLastInSeq(context, LAMBDA m : m.role = "user" /\ m.kind = "plain")
  <2>1. last \in 0..Len(context) /\ (last # 0 => context[last].role = "user")
    BY <1>0, LastRequest
  <2>2. last > 1 /\ context' = SubSeq(context, 1, last - 1) /\ pc = "idle" /\ UNCHANGED <<anchor, pc>>
        /\ stale' = (stale \/ anchor.count >= last)
    BY <1>4 DEF Undo
  <2> HIDE DEF last
  <2>3. last - 1 \in 0..Len(context) /\ last \in Nat /\ context[last].role = "user"
    BY <1>0, <2>1, <2>2
  <2>4. context' \in Seq(Message) /\ Len(context') = last - 1
        /\ \A i \in 1..(last - 1) : context'[i] = context[i]
    BY <1>0, <2>2, <2>3, FrontType
  <2>5. anchor # NoAnchor /\ ~stale' =>
          /\ ~stale /\ anchor.count < Len(context')
          /\ \A i \in 1..(anchor.count + 1) : context'[i] = context[i]
    <3> SUFFICES ASSUME anchor # NoAnchor, ~stale'
                 PROVE  ~stale /\ anchor.count < last - 1
      <4>1. anchor # NoAnchor /\ ~stale' /\ anchor.count < last - 1 =>
              \A i \in 1..(anchor.count + 1) : i \in 1..(last - 1)
        BY <1>0, <2>3
      <4> QED BY <2>4, <4>1
    <3>1. ~stale /\ ~(anchor.count >= last)
      BY <1>0, <2>2
    <3>2. anchor.count \in Nat /\ context[anchor.count + 1].role = "assistant"
      BY <1>0, <2>2, <3>1 DEF Priced
    <3>3. anchor.count + 1 # last
      BY <2>3, <3>2
    <3> QED BY <2>3, <3>1, <3>2, <3>3
  <2> QED BY <2>2, <2>4, <2>5, PrefixPriced
<1>5. CASE Clear
  BY <1>5 DEF Clear, Priced
<1>6. CASE CallModel \/ Summarise
  <2>1. pc = "idle" /\ pc' = "attempt" /\ UNCHANGED <<context, anchor, stale>>
    BY <1>6 DEF CallModel, Summarise, BeginCall, store
  <2> QED BY <2>1, SamePriced
<1> QED BY <1>1, <1>2, <1>3, <1>4, <1>5, <1>6 DEF Between

LEMMA InCallPriced ==
  ASSUME TypeInv, CallInv, Priced, InCall
  PROVE  Priced'
<1>0. context \in Seq(Message) /\ Len(context) \in Nat
      /\ (anchor # NoAnchor => anchor.count \in Nat)
  BY DEF TypeInv, ListsOK, AnchorOK, Anchors
<1>1. CASE \E elapsed \in BOOLEAN : Attempt(elapsed)
  <2>1. pc = "attempt" /\ pc' \in {"sent", "idle"} /\ stale' = stale
        /\ (anchor' = NoAnchor \/ (anchor' = anchor /\ context' = context))
    BY <1>1 DEF Attempt, PersistPruned, Raise, Return
  <2>2. CASE anchor' = NoAnchor
    BY <2>2 DEF Priced
  <2> QED BY <2>1, <2>2, SamePriced
<1>2. CASE \/ \E kind \in Transients : Transient(kind)
           \/ Fatal \/ Overflow \/ Unencodable \/ TooShort
           \/ \E kind \in {"text", "reasoning"} : Chunk(kind)
  <2>1. pc = "sent" /\ UNCHANGED <<context, anchor, stale>>
    BY <1>2 DEF Transient, Fatal, Overflow, Unencodable, TooShort, MayFail, Chunk, store
  <2>2. pc' # "answered"
    BY <1>2, <2>1 DEF Transient, Fatal, Overflow, OverflowRedacted, OverflowCompressed,
         OverflowUnrecovered, Unencodable, TooShort, Chunk, NextAttempt, Raise, Return
  <2> QED BY <2>1, <2>2, SamePriced
<1>3. CASE NoVision
  <2>1. pc = "sent" /\ UNCHANGED <<anchor, stale>>
    BY <1>3 DEF NoVision, MayFail
  <2>2. pc' # "answered"
    BY <1>3 DEF NoVision, NextAttempt, Raise, Return
  <2>3. CASE context' = context
    BY <2>1, <2>2, <2>3, SamePriced
  <2>4. CASE context' # context
    <3> DEFINE seen == WithoutImages(Last(context))
               n == Len(context) - 1
    <3>1. context' = Append(Front(context), seen) /\ EndsWithImage(context)
      BY <1>3, <2>4 DEF NoVision
    <3>2. n \in Nat /\ n \in 0..Len(context) /\ Len(context) = n + 1
          /\ context[n + 1].role = "user" /\ context[n + 1] \in Message
          /\ Last(context) = context[n + 1]
      BY <1>0, <3>1 DEF EndsWithImage, Last
    <3>3. Front(context) \in Seq(Message) /\ Len(Front(context)) = n
          /\ \A i \in 1..n : Front(context)[i] = context[i]
      <4> HIDE DEF n
      <4>1. Len(context) - 1 = n
        BY <3>2
      <4> QED BY <1>0, <3>2, <4>1, FrontType DEF Front
    <3>4. seen \in Message
      BY <3>2, WithoutImagesProps
    <3> HIDE DEF seen, n
    <3>5. context' \in Seq(Message) /\ Len(context') = n + 1 /\ \A i \in 1..n : context'[i] = context[i]
      BY <3>1, <3>2, <3>3, <3>4
    <3>6. anchor # NoAnchor /\ ~stale' =>
            /\ ~stale /\ anchor.count < Len(context')
            /\ \A i \in 1..(anchor.count + 1) : context'[i] = context[i]
      <4> SUFFICES ASSUME anchor # NoAnchor, ~stale' PROVE ~stale /\ anchor.count < n
        <5>1. anchor # NoAnchor /\ anchor.count < n =>
                anchor.count < n + 1 /\ \A i \in 1..(anchor.count + 1) : i \in 1..n
          BY <1>0, <3>2
        <5> QED BY <3>5, <5>1
      <4>1. ~stale /\ anchor.count \in Nat /\ anchor.count < n + 1
            /\ context[anchor.count + 1].role = "assistant"
        BY <1>0, <2>1, <3>2 DEF Priced
      <4>2. anchor.count # n
        BY <3>2, <4>1
      <4> QED BY <3>2, <4>1, <4>2
    <3> QED BY <2>1, <2>2, <3>5, <3>6, PrefixPriced
  <2> QED BY <2>3, <2>4
<1>4. CASE StreamAborts
  BY <1>4, Written, AppendPriced DEF StreamAborts, Return
<1>5. CASE Reply
  <2>1. /\ pc = "answered" /\ pc' = "idle" /\ context' = Append(context, Assistant)
        /\ UNCHANGED <<anchor, stale>>
    BY <1>5 DEF Reply
  <2> SUFFICES ASSUME anchor # NoAnchor, ~stale PROVE Priced'
    BY <2>1 DEF Priced
  <2>2. anchor.count = Len(context) /\ anchor.tokens = Exact(SubSeq(context, 1, anchor.count))
    BY <2>1 DEF Priced
  <2>3. /\ context' \in Seq(Message) /\ Len(context') = Len(context) + 1
        /\ context'[Len(context) + 1] = Assistant
        /\ \A i \in 1..Len(context) : context'[i] = context[i]
    BY <1>0, <2>1, Written
  <2>4. SubSeq(context, 1, Len(context)) = context
    BY <1>0, SubSeqFull
  <2>5. SubSeq(context', 1, Len(context)) = context
    <3> DEFINE n == Len(context)
    <3>1. n \in Nat /\ 1 \in 1..(Len(context') + 1) /\ n \in (1 - 1)..Len(context')
      BY <1>0, <2>3
    <3>2. SubSeq(context', 1, n) \in Seq(Message) /\ Len(SubSeq(context', 1, n)) = n - 1 + 1
          /\ \A i \in 1..(n - 1 + 1) : SubSeq(context', 1, n)[i] = context'[1 + i - 1]
      BY <2>3, <3>1, Part
    <3>3. n - 1 + 1 = n /\ \A i \in 1..n : 1 + i - 1 = i
      BY <3>1
    <3>4. Len(SubSeq(context', 1, n)) = Len(context)
          /\ \A i \in 1..Len(context) : SubSeq(context', 1, n)[i] = context[i]
      BY <2>3, <3>2, <3>3
    <3>5. SubSeq(context', 1, n) = context
      <4> HIDE DEF n
      <4>1. Len(SubSeq(context', 1, n)) = Len(context)
            /\ \A i \in 1..Len(SubSeq(context', 1, n)) : SubSeq(context', 1, n)[i] = context[i]
        BY <3>4
      <4> QED BY <1>0, <3>2, <4>1, SeqEqual
    <3> QED BY <3>5
  <2>6. Assistant.role = "assistant"
    BY DEF Assistant
  <2>7. anchor.count < Len(context') /\ context'[anchor.count + 1].role = "assistant"
        /\ anchor.count <= Len(context')
    BY <1>0, <2>2, <2>3, <2>6
  <2> QED BY <2>1, <2>2, <2>4, <2>5, <2>7 DEF Priced
<1>6. CASE \E usage \in BOOLEAN : StreamEnds(usage)
  <2>1. PICK usage \in BOOLEAN : StreamEnds(usage)
    BY <1>6
  <2>2. /\ pc = "sent" /\ pc' = "answered" /\ call.job = "main"
        /\ anchor' \in {[count |-> Len(context), tokens |-> Exact(sent)], NoAnchor}
        /\ stale' = (call.compressed \/ context' # Synced)
    BY <2>1 DEF StreamEnds
  <2> SUFFICES ASSUME anchor' # NoAnchor, ~stale' PROVE Priced'
    BY DEF Priced
  <2>3. anchor'.count = Len(context) /\ anchor'.tokens = Exact(sent)
    BY <2>2
  <2>4. ~call.compressed /\ context' = context /\ Working = context
    BY <2>2 DEF Synced, Working
  <2>5. sent = Prepare(context)
    BY <2>2, <2>4 DEF CallInv, Carried
  <2>6. Exact(sent) = Exact(context)
    BY <1>0, <2>5, Prepared, ExactEqual
  <2>7. SubSeq(context, 1, Len(context)) = context
    BY <1>0, SubSeqFull
  <2>8. SubSeq(context', 1, anchor'.count) = context
    BY <2>3, <2>4, <2>7
  <2>9. anchor'.tokens = Exact(SubSeq(context', 1, anchor'.count))
    BY <2>3, <2>6, <2>8
  <2>10. anchor'.count = Len(context') /\ anchor'.count <= Len(context')
    BY <1>0, <2>3, <2>4
  <2> QED BY <2>2, <2>9, <2>10 DEF Priced
<1>7. CASE \E good \in BOOLEAN : SummaryEnds(good)
  <2>1. PICK good \in BOOLEAN : SummaryEnds(good)
    BY <1>7
  <2> DEFINE last == SelectLastInSeq(context, LAMBDA m : m.role = "assistant")
  <2>2. context' = [i \in 1..Len(context) |->
          IF good /\ i = last THEN [context[i] EXCEPT !.summary = TRUE] ELSE context[i]]
    BY <1>0, <2>1 DEF SummaryEnds
  <2> HIDE DEF last
  <2>3. pc = "sent" /\ pc' = "idle" /\ UNCHANGED <<anchor, stale>>
    BY <2>1 DEF SummaryEnds, Return
  <2>4. \A m \in Message : /\ [m EXCEPT !.summary = TRUE] \in Message
                           /\ [m EXCEPT !.summary = TRUE].role = m.role
                           /\ Price([m EXCEPT !.summary = TRUE]) = Price(m)
    BY DEF Message, Price
  <2>5. \A i \in 1..Len(context) : context[i] \in Message
    BY <1>0
  <2>6. context' \in Seq(Message) /\ Len(context') = Len(context)
        /\ \A i \in 1..Len(context) :
             Price(context'[i]) = Price(context[i]) /\ context'[i].role = context[i].role
    BY <1>0, <2>2, <2>4, <2>5
  <2>7. anchor # NoAnchor /\ ~stale' =>
          /\ ~stale /\ anchor.count < Len(context')
          /\ \A i \in 1..(anchor.count + 1) : i \in 1..Len(context)
    BY <1>0, <2>3, <2>6 DEF Priced
  <2> QED BY <2>3, <2>6, <2>7, PrefixPriced
<1> QED BY <1>1, <1>2, <1>3, <1>4, <1>5, <1>6, <1>7 DEF InCall

LEMMA PricedKept ==
  ASSUME TypeInv, CallInv, Priced, [Next]_vars
  PROVE  Priced'
<1>1. CASE UNCHANGED vars
  BY <1>1 DEF vars, store, Priced
<1> QED BY <1>1, BetweenPriced, InCallPriced DEF Next

\* The exact count an anchor carries is the price of the messages it stands
\* for (last_exact_context_tokens and last_exact_msg_count), as long as nothing
\* has rewritten them behind it: appends, undos behind the anchor, images the
\* agent strips and summaries it attaches leave it true.
THEOREM AnchorIsExact == Spec => []AnchorPricesPrefix
<1>1. Init => TypeInv /\ CallInv /\ Priced
  BY TypesInit, CallInit DEF Init, Priced
<1>2. TypeInv /\ CallInv /\ Priced /\ [Next]_vars => TypeInv' /\ CallInv' /\ Priced'
  BY TypesKept, CallKept, PricedKept
<1>3. Priced => AnchorPricesPrefix
  BY DEF Priced, AnchorPricesPrefix, Anchored
<1> QED BY <1>1, <1>2, <1>3, PTL DEF Spec

=============================================================================
