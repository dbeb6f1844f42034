------------------------- MODULE CompressionProofs -------------------------
(***************************************************************************)
(* Proofs about the compression pipeline: what its steps do to a list of   *)
(* messages of any length, for any sizes and any target.  First what the   *)
(* loops of the steps compute, then that each step leaves a list that can  *)
(* be sent, then what becomes of the requests the list states; at the end  *)
(* the invariants, over all of a turn's growth and compressions.           *)
(***************************************************************************)
EXTENDS Compression, FiniteSetTheorems, SequenceTheorems, WellFoundedInduction, TLAPS

-----------------------------------------------------------------------------
(* Numbers                                                                 *)

LEMMA LeastNumber ==
  ASSUME NEW S \in SUBSET Nat, S # {}
  PROVE  \E m \in S : \A k \in S : m <= k
<1> DEFINE Lt == {p \in Nat \X Nat : p[1] < p[2]}
<1>1. IsWellFoundedOn(Lt, Nat)
  BY NatLessThanWellFounded DEF OpToRel
<1>2. \A x, y \in Nat : <<y, x>> \in Lt <=> y < x
  OBVIOUS
<1> HIDE DEF Lt
<1>3. PICK x \in S : \A y \in S : ~ (<<y, x>> \in Lt)
  BY <1>1, WFMin
<1>4. x \in Nat /\ \A y \in S : y \in Nat /\ ~(y < x)
  BY <1>2, <1>3
<1> QED BY <1>3, <1>4

LEMMA EveryNumber ==
  ASSUME NEW S, 0 \in S, \A k \in Nat : k \in S => k + 1 \in S
  PROVE  \A k \in Nat : k \in S
<1> DEFINE Bad == {k \in Nat : k \notin S}
<1> SUFFICES ASSUME Bad # {} PROVE FALSE
  OBVIOUS
<1>1. Bad \in SUBSET Nat /\ \A k \in Nat : k \in Bad <=> k \notin S
  OBVIOUS
<1> HIDE DEF Bad
<1>2. PICK m \in Bad : \A k \in Bad : m <= k
  BY <1>1, LeastNumber
<1>3. m \in Nat /\ m # 0
  BY <1>1
<1>4. m - 1 \in Nat /\ ~(m <= m - 1) /\ (m - 1) + 1 = m
  BY <1>3
<1>5. m - 1 \in S
  BY <1>1, <1>2, <1>4
<1> QED BY <1>1, <1>4, <1>5

\* Some positions of a list have a first one and a last one.
LEMMA LargestPosition ==
  ASSUME NEW n \in Nat, NEW I \in SUBSET (1..n), I # {}
  PROVE  Max(I) \in I /\ \A i \in I : Max(I) >= i
<1> DEFINE J == {j \in Nat : \E i \in I : j = n - i}
<1>1. \A i \in I : n - i \in J
  OBVIOUS
<1>2. J \in SUBSET Nat /\ J # {}
  BY <1>1
<1>3. \A j \in J : \E i \in I : j = n - i
  OBVIOUS
<1> HIDE DEF J
<1>4. PICK j \in J : \A k \in J : j <= k
  BY <1>2, LeastNumber
<1>5. PICK i \in I : j = n - i
  BY <1>3
<1>6. \A k \in I : i >= k
  BY <1>1, <1>4, <1>5
<1> QED BY <1>6 DEF Max

LEMMA SmallestPosition ==
  ASSUME NEW n \in Nat, NEW I \in SUBSET (1..n), I # {}
  PROVE  Min(I) \in I /\ \A i \in I : Min(I) <= i
<1>1. I \in SUBSET Nat
  OBVIOUS
<1>2. \E m \in I : \A k \in I : m <= k
  BY <1>1, LeastNumber
<1> QED BY <1>2 DEF Min

\* What is counted among the positions of a list is at most its length.
LEMMA PositionsCounted ==
  ASSUME NEW n \in Nat, NEW I \in SUBSET (1..n)
  PROVE  Cardinality(I) \in 0..n
<1>1. IsFiniteSet(1..n) /\ Cardinality(1..n) = n
  BY FS_Interval
<1>2. IsFiniteSet(I) /\ Cardinality(I) <= n
  BY <1>1, FS_Subset
<1> QED BY <1>2, FS_CardinalityType

LEMMA Quotient ==
  ASSUME NEW a \in Int, NEW b \in Nat, b > 0
  PROVE  a \div b \in Int
OBVIOUS

LEMMA Compared == \A a, b \in Int : Smaller(a, b) \in {a, b} /\ Smaller(a, b) <= a /\ Smaller(a, b) <= b
                                  /\ Larger(a, b) \in {a, b} /\ Larger(a, b) >= a /\ Larger(a, b) >= b
BY DEF Smaller, Larger

-----------------------------------------------------------------------------
(* Messages and their sizes                                                *)

LEMMA Constants ==
  /\ MaxUser \in Nat /\ MaxRequest \in Nat /\ MaxItem \in Nat /\ MaxReplItems \in Nat
  /\ MinBlock \in Nat /\ MinTarget \in Nat /\ MinTask \in Nat /\ ImageSize \in Nat
  /\ Window \in Nat /\ Reserve \in Nat /\ MaxLength \in Nat /\ MaxRequests \in Nat
  /\ MaxCompressions \in Nat
  /\ MaxUser >= 1 /\ MaxRequest >= 1 /\ MaxItem >= 1 /\ MinTarget >= 1
  /\ Task \in Atoms /\ Other \in Atoms
BY CompressionAssumption DEF Atoms, Task, Other

LEMMA Parts ==
  ASSUME NEW m \in Message
  PROVE  /\ m.role \in {"system", "user", "assistant"} /\ m.text \in Seq(Atoms)
         /\ m.images \in Nat /\ m.reasoning \in Nat /\ m.summary \in BOOLEAN
BY DEF Message

LEMMA BytesType == \A m \in Message : Bytes(m) \in Nat
<1> SUFFICES ASSUME NEW m \in Message PROVE Bytes(m) \in Nat
  OBVIOUS
<1>1. m.text \in Seq(Atoms) /\ m.images \in Nat /\ m.reasoning \in Nat
  BY Parts
<1>2. Len(m.text) \in Nat
  BY <1>1
<1>3. m.images * ImageSize \in Nat
  BY <1>1, Constants
<1>4. (IF m.summary THEN 1 ELSE 0) \in Nat
  OBVIOUS
<1> QED BY <1>1, <1>2, <1>3, <1>4 DEF Bytes

IsSummed(f, list, n) ==
  f = [k \in 0..n |-> IF k = 0 THEN 0 ELSE f[k - 1] + Bytes(list[k])]

LEMMA SummedExists ==
  ASSUME NEW list
  PROVE  \A n \in Nat : \E f : IsSummed(f, list, n)
<1> DEFINE S == {n \in Nat : \E f : IsSummed(f, list, n)}
<1>1. 0 \in S
  <2>1. IsSummed([k \in 0..0 |-> 0], list, 0)
    BY DEF IsSummed
  <2> QED BY <2>1
<1>2. ASSUME NEW n \in Nat, n \in S PROVE n + 1 \in S
  <2>1. PICK f : IsSummed(f, list, n)
    BY <1>2
  <2> DEFINE g == [k \in 0..(n + 1) |-> IF k = n + 1 THEN f[n] + Bytes(list[n + 1]) ELSE f[k]]
  <2>2. \A k \in 0..n : f[k] = IF k = 0 THEN 0 ELSE f[k - 1] + Bytes(list[k])
    BY <2>1 DEF IsSummed
  <2>3. \A k \in 0..(n + 1) : g[k] = IF k = 0 THEN 0 ELSE g[k - 1] + Bytes(list[k])
    BY <2>2
  <2>4. g = [k \in 0..(n + 1) |-> g[k]]
    OBVIOUS
  <2>5. IsSummed(g, list, n + 1)
    <3> HIDE DEF g
    <3> QED BY <2>3, <2>4 DEF IsSummed
  <2> QED BY <2>5
<1> HIDE DEF S
<1>3. \A n \in Nat : n \in S
  BY <1>1, <1>2, EveryNumber
<1> QED BY <1>3 DEF S

LEMMA SizeType == \A list \in Seq(Message) : Size(list) \in Nat
<1> SUFFICES ASSUME NEW list \in Seq(Message) PROVE Size(list) \in Nat
  OBVIOUS
<1>1. Len(list) \in Nat /\ \A k \in 1..Len(list) : list[k] \in Message
  OBVIOUS
<1>2. \E f : IsSummed(f, list, Len(list))
  BY <1>1, SummedExists
<1>3. Size(list) = (CHOOSE f : IsSummed(f, list, Len(list)))[Len(list)]
  BY DEF Size, IsSummed
<1>4. PICK f : IsSummed(f, list, Len(list)) /\ Size(list) = f[Len(list)]
  BY <1>2, <1>3
<1>5. \A k \in 0..Len(list) : f[k] = IF k = 0 THEN 0 ELSE f[k - 1] + Bytes(list[k])
  BY <1>4 DEF IsSummed
<1> DEFINE S == {k \in Nat : k <= Len(list) => f[k] \in Nat}
<1>6. 0 \in S
  BY <1>1, <1>5
<1>7. ASSUME NEW k \in Nat, k \in S PROVE k + 1 \in S
  <2> SUFFICES ASSUME k + 1 <= Len(list) PROVE f[k + 1] \in Nat
    OBVIOUS
  <2>1. k + 1 \in 0..Len(list) /\ k + 1 \in 1..Len(list) /\ k + 1 # 0 /\ (k + 1) - 1 = k
    BY <1>1
  <2>2. f[k] \in Nat
    BY <1>7, <2>1
  <2>3. f[k + 1] = f[k] + Bytes(list[k + 1])
    BY <1>5, <2>1
  <2>4. Bytes(list[k + 1]) \in Nat
    BY <1>1, <2>1, BytesType
  <2> QED BY <2>2, <2>3, <2>4
<1> HIDE DEF S
<1>8. \A k \in Nat : k \in S
  BY <1>6, <1>7, EveryNumber
<1> QED BY <1>1, <1>4, <1>8 DEF S

LEMMA SplitPointType == \A list \in Seq(Message) : SplitPoint(list) \in 0..Len(list)
<1> SUFFICES ASSUME NEW list \in Seq(Message) PROVE SplitPoint(list) \in 0..Len(list)
  OBVIOUS
<1> DEFINE I == {i \in DOMAIN list : 2 * Size(SubSeq(list, 1, i)) <= Size(list)}
<1>1. Len(list) \in Nat /\ I \in SUBSET (1..Len(list))
  OBVIOUS
<1>2. SplitPoint(list) = Cardinality(I)
  BY DEF SplitPoint
<1> HIDE DEF I
<1> QED BY <1>1, <1>2, PositionsCounted

LEMMA TargetType ==
  ASSUME NEW bytes \in Nat, NEW num \in Int, NEW den \in Nat, den > 0, NEW tokens \in Int
  PROVE  CompressionTarget(bytes, num, den, tokens) \in Int
         /\ CompressionTarget(bytes, num, den, tokens) >= 1
<1> DEFINE byFactor == (bytes * (den - num)) \div den
           budget   == Larger(0, Window - Reserve - (num * Window) \div den)
           byTokens == IF tokens > budget THEN (bytes * budget) \div tokens ELSE byFactor
<1>1. bytes * (den - num) \in Int /\ num * Window \in Int
  BY Constants
<1>2. byFactor \in Int /\ (num * Window) \div den \in Int
  BY <1>1, Quotient
<1>3. Window - Reserve - (num * Window) \div den \in Int
  BY <1>2, Constants
<1>4. budget \in Nat
  BY <1>3, Compared
<1> HIDE DEF budget, byFactor
<1>5. byTokens \in Int
  <2>1. CASE tokens > budget
    <3>1. tokens \in Nat /\ tokens > 0 /\ bytes * budget \in Int
      BY <1>4, <2>1
    <3>2. (bytes * budget) \div tokens \in Int
      BY <3>1, Quotient
    <3> QED BY <2>1, <3>2
  <2>2. CASE ~(tokens > budget)
    BY <1>2, <2>2
  <2> QED BY <2>1, <2>2
<1> HIDE DEF byTokens
<1>6. Smaller(byFactor, byTokens) \in Int
  BY <1>2, <1>5, Compared
<1> DEFINE least == Smaller(byFactor, byTokens)
<1> HIDE DEF least
<1>7. Larger(least, MinTarget) \in Int /\ Larger(least, MinTarget) >= 1
  <2>1. least \in Int
    BY <1>6 DEF least
  <2>2. Larger(least, MinTarget) \in {least, MinTarget} /\ Larger(least, MinTarget) >= MinTarget
    BY <2>1, Compared, Constants
  <2> QED BY <2>1, <2>2, Constants
<1> QED BY <1>7 DEF CompressionTarget, byFactor, budget, byTokens, least

-----------------------------------------------------------------------------
(* What a list has at some of its positions                                *)

IsChosen(f, places, list, n) ==
  f = [k \in 0..n |-> IF k = 0 THEN <<>>
                      ELSE IF k \in places THEN Append(f[k - 1], list[k]) ELSE f[k - 1]]

LEMMA ChosenExists ==
  ASSUME NEW places, NEW list
  PROVE  \A n \in Nat : \E f : IsChosen(f, places, list, n)
<1> DEFINE S == {n \in Nat : \E f : IsChosen(f, places, list, n)}
<1>1. 0 \in S
  <2>1. IsChosen([k \in 0..0 |-> <<>>], places, list, 0)
    BY DEF IsChosen
  <2> QED BY <2>1
<1>2. ASSUME NEW n \in Nat, n \in S PROVE n + 1 \in S
  <2>1. PICK f : IsChosen(f, places, list, n)
    BY <1>2
  <2> DEFINE g == [k \in 0..(n + 1) |->
                     IF k = n + 1 THEN IF n + 1 \in places THEN Append(f[n], list[n + 1]) ELSE f[n]
                     ELSE f[k]]
  <2>2. \A k \in 0..n : f[k] = IF k = 0 THEN <<>>
                               ELSE IF k \in places THEN Append(f[k - 1], list[k]) ELSE f[k - 1]
    BY <2>1 DEF IsChosen
  <2>3. \A k \in 0..(n + 1) : g[k] = IF k = 0 THEN <<>>
                               ELSE IF k \in places THEN Append(g[k - 1], list[k]) ELSE g[k - 1]
    BY <2>2
  <2>4. g = [k \in 0..(n + 1) |-> g[k]]
    OBVIOUS
  <2>5. IsChosen(g, places, list, n + 1)
    <3> HIDE DEF g
    <3> QED BY <2>3, <2>4 DEF IsChosen
  <2> QED BY <2>5
<1> HIDE DEF S
<1>3. \A n \in Nat : n \in S
  BY <1>1, <1>2, EveryNumber
<1> QED BY <1>3 DEF S

LEMMA ChosenWalk ==
  ASSUME NEW places, NEW list, Len(list) \in Nat
  PROVE  \E f : /\ KeptAt(places, list) = f[Len(list)]
                /\ f[0] = <<>>
                /\ \A k \in 1..Len(list) :
                     f[k] = IF k \in places THEN Append(f[k - 1], list[k]) ELSE f[k - 1]
<1>1. \E f : IsChosen(f, places, list, Len(list))
  BY ChosenExists
<1>2. KeptAt(places, list) = (CHOOSE f : IsChosen(f, places, list, Len(list)))[Len(list)]
  BY DEF KeptAt, IsChosen
<1>3. PICK f : IsChosen(f, places, list, Len(list)) /\ KeptAt(places, list) = f[Len(list)]
  BY <1>1, <1>2
<1>4. \A k \in 0..Len(list) : f[k] = IF k = 0 THEN <<>>
                               ELSE IF k \in places THEN Append(f[k - 1], list[k]) ELSE f[k - 1]
  BY <1>3 DEF IsChosen
<1>5. f[0] = <<>> /\ \A k \in 1..Len(list) :
                     f[k] = IF k \in places THEN Append(f[k - 1], list[k]) ELSE f[k - 1]
  BY <1>4
<1> QED BY <1>3, <1>5

LEMMA KeptAtType ==
  ASSUME NEW E, NEW list \in Seq(E), NEW places
  PROVE  KeptAt(places, list) \in Seq(E)
<1>1. Len(list) \in Nat /\ \A k \in 1..Len(list) : list[k] \in E
  OBVIOUS
<1>2. PICK f : /\ KeptAt(places, list) = f[Len(list)]
               /\ f[0] = <<>>
               /\ \A k \in 1..Len(list) :
                    f[k] = IF k \in places THEN Append(f[k - 1], list[k]) ELSE f[k - 1]
  BY <1>1, ChosenWalk
<1> DEFINE S == {k \in Nat : k <= Len(list) => f[k] \in Seq(E)}
<1>3. 0 \in S
  <2>1. <<>> \in Seq(E)
    OBVIOUS
  <2> QED BY <1>2, <2>1
<1>4. ASSUME NEW k \in Nat, k \in S PROVE k + 1 \in S
  <2> SUFFICES ASSUME k + 1 <= Len(list) PROVE f[k + 1] \in Seq(E)
    OBVIOUS
  <2>1. k + 1 \in 1..Len(list) /\ (k + 1) - 1 = k /\ k <= Len(list)
    BY <1>1
  <2>2. f[k] \in Seq(E) /\ list[k + 1] \in E
    BY <1>1, <1>4, <2>1
  <2>3. f[k + 1] = IF k + 1 \in places THEN Append(f[k], list[k + 1]) ELSE f[k]
    BY <1>2, <2>1
  <2> QED BY <2>2, <2>3
<1> HIDE DEF S
<1>5. \A k \in Nat : k \in S
  BY <1>3, <1>4, EveryNumber
<1> QED BY <1>1, <1>2, <1>5 DEF S

\* The positions of a set, in order, are positions of the list.
LEMMA InOrderType ==
  ASSUME NEW E, NEW list \in Seq(E), NEW places
  PROVE  InOrder(places, list) \in Seq(1..Len(list))
<1>1. [i \in DOMAIN list |-> i] \in Seq(1..Len(list))
  OBVIOUS
<1> QED BY <1>1, KeptAtType DEF InOrder

\* The positions of a set, from the first to the last.
Picks(h, places, n) ==
  /\ h \in Seq(1..n)
  /\ \A a, b \in 1..Len(h) : a < b => h[a] < h[b]
  /\ \A a \in 1..Len(h) : h[a] \in places
  /\ \A i \in 1..n : i \in places => \E a \in 1..Len(h) : h[a] = i

LEMMA PicksMore ==
  ASSUME NEW n \in Nat, NEW h, NEW places, Picks(h, places, n)
  PROVE  /\ n + 1 \notin places => Picks(h, places, n + 1)
         /\ n + 1 \in places => Picks(Append(h, n + 1), places, n + 1)
<1>1. h \in Seq(1..n) /\ Len(h) \in Nat /\ \A a \in 1..Len(h) : h[a] \in 1..n /\ h[a] \in places
  BY DEF Picks
<1>2. h \in Seq(1..n + 1)
  <2>1. \A a \in 1..Len(h) : h[a] \in 1..n + 1
    BY <1>1
  <2> QED BY <1>1, <2>1
<1>3. ASSUME n + 1 \notin places PROVE Picks(h, places, n + 1)
  <2>1. \A i \in 1..n + 1 : i \in places => i \in 1..n
    BY <1>3
  <2> QED BY <1>2, <2>1 DEF Picks
<1>4. ASSUME n + 1 \in places PROVE Picks(Append(h, n + 1), places, n + 1)
  <2> DEFINE g == Append(h, n + 1)
  <2>1. /\ g \in Seq(1..n + 1) /\ Len(g) = Len(h) + 1 /\ g[Len(h) + 1] = n + 1
        /\ \A a \in 1..Len(h) : g[a] = h[a]
    BY <1>2
  <2> HIDE DEF g
  <2>2. \A a \in 1..Len(g) : a \in 1..Len(h) \/ a = Len(h) + 1
    BY <1>1, <2>1
  <2>3. ASSUME NEW a \in 1..Len(g), NEW b \in 1..Len(g), a < b PROVE g[a] < g[b]
    <3>1. a \in 1..Len(h)
      BY <1>1, <2>1, <2>3
    <3>2. CASE b \in 1..Len(h)
      BY <2>1, <2>3, <3>1, <3>2 DEF Picks
    <3>3. CASE b = Len(h) + 1
      BY <1>1, <2>1, <3>1, <3>3
    <3> QED BY <2>2, <3>2, <3>3
  <2>4. \A a \in 1..Len(g) : g[a] \in places
    BY <1>1, <1>4, <2>1, <2>2
  <2>5. ASSUME NEW i \in 1..n + 1, i \in places PROVE \E a \in 1..Len(g) : g[a] = i
    <3>1. CASE i = n + 1
      <4>1. Len(h) + 1 \in 1..Len(g)
        BY <1>1, <2>1
      <4> QED BY <2>1, <3>1, <4>1
    <3>2. CASE i # n + 1
      <4>1. i \in 1..n
        BY <3>2
      <4>2. PICK a \in 1..Len(h) : h[a] = i
        BY <2>5, <4>1 DEF Picks
      <4>3. a \in 1..Len(g) /\ g[a] = i
        BY <1>1, <2>1, <4>2
      <4> QED BY <4>3
    <3> QED BY <3>1, <3>2
  <2> QED BY <2>1, <2>3, <2>4, <2>5 DEF Picks, g
<1> QED BY <1>3, <1>4

\* What is kept of a list stands where its positions stand.
LEMMA KeptPicks ==
  ASSUME NEW E, NEW list \in Seq(E), NEW places
  PROVE  \E h : /\ Picks(h, places, Len(list)) /\ Len(KeptAt(places, list)) = Len(h)
                /\ \A a \in 1..Len(h) : KeptAt(places, list)[a] = list[h[a]]
<1>1. Len(list) \in Nat /\ \A k \in 1..Len(list) : list[k] \in E
  OBVIOUS
<1>2. PICK f : /\ KeptAt(places, list) = f[Len(list)]
               /\ f[0] = <<>>
               /\ \A k \in 1..Len(list) :
                    f[k] = IF k \in places THEN Append(f[k - 1], list[k]) ELSE f[k - 1]
  BY <1>1, ChosenWalk
<1> DEFINE Stand(h, k) == /\ f[k] \in Seq(E) /\ Picks(h, places, k) /\ Len(f[k]) = Len(h)
                          /\ \A a \in 1..Len(h) : f[k][a] = list[h[a]]
<1> DEFINE S == {k \in Nat : k <= Len(list) => \E h : Stand(h, k)}
<1>3. 0 \in S
  <2>1. Picks(<<>>, places, 0)
    BY DEF Picks
  <2>2. <<>> \in Seq(E) /\ Len(<<>>) = 0
    OBVIOUS
  <2>3. Stand(<<>>, 0)
    BY <1>2, <2>1, <2>2
  <2> QED BY <2>3
<1>4. ASSUME NEW k \in Nat, k \in S PROVE k + 1 \in S
  <2> SUFFICES ASSUME k + 1 <= Len(list) PROVE \E h : Stand(h, k + 1)
    OBVIOUS
  <2>1. k + 1 \in 1..Len(list) /\ (k + 1) - 1 = k /\ k <= Len(list)
    BY <1>1
  <2>2. PICK h : Stand(h, k)
    BY <1>4, <2>1
  <2>3. f[k + 1] = IF k + 1 \in places THEN Append(f[k], list[k + 1]) ELSE f[k]
    BY <1>2, <2>1
  <2>4. CASE k + 1 \notin places
    <3>1. Picks(h, places, k + 1)
      BY <2>2, <2>4, PicksMore
    <3>2. Stand(h, k + 1)
      BY <2>2, <2>3, <2>4, <3>1
    <3> QED BY <3>2
  <2>5. CASE k + 1 \in places
    <3> DEFINE g == Append(h, k + 1)
    <3>1. Picks(g, places, k + 1)
      BY <2>2, <2>5, PicksMore
    <3>2. h \in Seq(1..k) /\ f[k] \in Seq(E) /\ list[k + 1] \in E /\ Len(f[k]) = Len(h)
      BY <1>1, <2>1, <2>2 DEF Picks
    <3>3. /\ Len(g) = Len(h) + 1 /\ g[Len(h) + 1] = k + 1
          /\ \A a \in 1..Len(h) : g[a] = h[a]
      BY <3>2
    <3>4. /\ f[k + 1] \in Seq(E) /\ Len(f[k + 1]) = Len(h) + 1 /\ f[k + 1][Len(h) + 1] = list[k + 1]
          /\ \A a \in 1..Len(h) : f[k + 1][a] = f[k][a]
      BY <2>3, <2>5, <3>2
    <3> HIDE DEF g
    <3>5. ASSUME NEW a \in 1..Len(g) PROVE f[k + 1][a] = list[g[a]]
      <4>1. a \in 1..Len(h) \/ a = Len(h) + 1
        BY <3>2, <3>3
      <4> QED BY <2>2, <3>3, <3>4, <4>1
    <3>6. Stand(g, k + 1)
      BY <3>1, <3>3, <3>4, <3>5
    <3> QED BY <3>6
  <2> QED BY <2>4, <2>5
<1> HIDE DEF S
<1>5. \A k \in Nat : k \in S
  BY <1>3, <1>4, EveryNumber
<1>6. \E h : Stand(h, Len(list))
  BY <1>1, <1>5 DEF S
<1> QED BY <1>2, <1>6

\* The positions themselves, in order.
LEMMA InOrderPicks ==
  ASSUME NEW E, NEW list \in Seq(E), NEW places
  PROVE  Picks(InOrder(places, list), places, Len(list))
<1> DEFINE self == [i \in DOMAIN list |-> i]
<1>1. self \in Seq(1..Len(list)) /\ Len(self) = Len(list) /\ \A i \in 1..Len(list) : self[i] = i
  OBVIOUS
<1> HIDE DEF self
<1>2. InOrder(places, list) = KeptAt(places, self)
  BY DEF InOrder, self
<1>3. PICK h : /\ Picks(h, places, Len(list)) /\ Len(KeptAt(places, self)) = Len(h)
               /\ \A a \in 1..Len(h) : KeptAt(places, self)[a] = self[h[a]]
  BY <1>1, KeptPicks
<1>4. InOrder(places, list) \in Seq(1..Len(list))
  BY InOrderType
<1>5. \A a \in 1..Len(h) : h[a] \in 1..Len(list)
  BY <1>3 DEF Picks
<1>6. \A a \in 1..Len(h) : InOrder(places, list)[a] = h[a]
  BY <1>1, <1>2, <1>3, <1>5
<1> QED BY <1>2, <1>3, <1>4, <1>6 DEF Picks

Alternates(list) == \A i \in 1..Len(list) - 1 : list[i].role # list[i + 1].role

LEMMA AlternatesAppend ==
  ASSUME NEW list \in Seq(Message), Alternates(list), NEW m \in Message,
         list # <<>> => Last(list).role # m.role
  PROVE  Append(list, m) \in Seq(Message) /\ Alternates(Append(list, m))
         /\ Append(list, m) # <<>> /\ Last(Append(list, m)) = m
<1> DEFINE d == Append(list, m)
           n == Len(list)
<1>1. n \in Nat /\ (list # <<>> => n >= 1) /\ (list = <<>> => n = 0)
  OBVIOUS
<1>2. d \in Seq(Message) /\ Len(d) = n + 1 /\ d[n + 1] = m /\ d # <<>>
      /\ \A i \in 1..n : d[i] = list[i]
  OBVIOUS
<1> HIDE DEF d
<1>3. ASSUME NEW i \in 1..Len(d) - 1 PROVE d[i].role # d[i + 1].role
  <2>1. CASE i = n
    <3>1. n >= 1 /\ list # <<>> /\ d[i] = list[n] /\ d[i + 1] = m
      BY <1>1, <1>2, <1>3, <2>1
    <3> QED BY <3>1 DEF Last
  <2>2. CASE i # n
    <3>1. i \in 1..n - 1 /\ i \in 1..n /\ i + 1 \in 1..n
      BY <1>1, <1>2, <2>2
    <3>2. d[i] = list[i] /\ d[i + 1] = list[i + 1]
      BY <1>2, <3>1
    <3> QED BY <3>1, <3>2 DEF Alternates
  <2> QED BY <2>1, <2>2
<1>4. Alternates(d) /\ Last(d) = m
  BY <1>2, <1>3 DEF Alternates, Last
<1> QED BY <1>2, <1>4 DEF d

\* What is kept of a list alternates when any two messages do that come to
\* stand side by side; a last message that is kept stays the last.
LEMMA KeptAlternates ==
  ASSUME NEW list \in Seq(Message), NEW places,
         \A i, j \in 1..Len(list) :
           /\ i < j /\ i \in places /\ j \in places
           /\ \A k \in i + 1 .. j - 1 : k \notin places
           => list[i].role # list[j].role
  PROVE  /\ Alternates(KeptAt(places, list))
         /\ list # <<>> /\ Len(list) \in places
              => KeptAt(places, list) # <<>> /\ Last(KeptAt(places, list)) = Last(list)
<1>1. Len(list) \in Nat /\ \A k \in 1..Len(list) : list[k] \in Message
  OBVIOUS
<1>2. PICK f : /\ KeptAt(places, list) = f[Len(list)]
               /\ f[0] = <<>>
               /\ \A k \in 1..Len(list) :
                    f[k] = IF k \in places THEN Append(f[k - 1], list[k]) ELSE f[k - 1]
  BY <1>1, ChosenWalk
<1> DEFINE Tip(k) ==
      \/ f[k] = <<>>
      \/ \E i \in 1..k : /\ i \in places /\ \A j \in i + 1 .. k : j \notin places
                        /\ Last(f[k]) = list[i]
<1> DEFINE S == {k \in Nat : k <= Len(list) =>
                   f[k] \in Seq(Message) /\ Alternates(f[k]) /\ Tip(k)}
<1>3. 0 \in S
  <2>1. Alternates(<<>>) /\ <<>> \in Seq(Message)
    BY DEF Alternates
  <2> QED BY <1>2, <2>1
<1>4. ASSUME NEW k \in Nat, k \in S PROVE k + 1 \in S
  <2> SUFFICES ASSUME k + 1 <= Len(list)
               PROVE  f[k + 1] \in Seq(Message) /\ Alternates(f[k + 1]) /\ Tip(k + 1)
    OBVIOUS
  <2>1. k + 1 \in 1..Len(list) /\ (k + 1) - 1 = k /\ k <= Len(list)
    BY <1>1
  <2>2. f[k] \in Seq(Message) /\ Alternates(f[k]) /\ Tip(k)
    BY <1>4, <2>1
  <2>3. f[k + 1] = IF k + 1 \in places THEN Append(f[k], list[k + 1]) ELSE f[k]
    BY <1>2, <2>1
  <2>4. CASE k + 1 \in places
    <3>1. list[k + 1] \in Message
      BY <1>1, <2>1
    <3>2. ASSUME f[k] # <<>> PROVE Last(f[k]).role # list[k + 1].role
      <4>1. PICK i \in 1..k : /\ i \in places /\ \A j \in i + 1 .. k : j \notin places
                              /\ Last(f[k]) = list[i]
        BY <2>2, <3>2
      <4>2. i \in 1..Len(list) /\ i < k + 1 /\ i + 1 .. (k + 1) - 1 = i + 1 .. k
        BY <2>1
      <4>3. list[i].role # list[k + 1].role
        BY <2>1, <2>4, <4>1, <4>2
      <4> QED BY <4>1, <4>3
    <3>3. f[k + 1] \in Seq(Message) /\ Alternates(f[k + 1]) /\ Last(f[k + 1]) = list[k + 1]
      BY <2>2, <2>3, <2>4, <3>1, <3>2, AlternatesAppend
    <3>4. k + 1 \in 1..k + 1 /\ \A j \in (k + 1) + 1 .. k + 1 : j \notin places
      OBVIOUS
    <3>5. Tip(k + 1)
      BY <2>4, <3>3, <3>4
    <3> QED BY <3>3, <3>5
  <2>5. CASE k + 1 \notin places
    <3>1. f[k + 1] = f[k]
      BY <2>3, <2>5
    <3>2. Tip(k + 1)
      <4>1. CASE f[k] = <<>>
        BY <3>1, <4>1
      <4>2. CASE f[k] # <<>>
        <5>1. PICK i \in 1..k : /\ i \in places /\ \A j \in i + 1 .. k : j \notin places
                                /\ Last(f[k]) = list[i]
          BY <2>2, <4>2
        <5>2. i \in 1..k + 1 /\ \A j \in i + 1 .. k + 1 : j \notin places
          BY <2>5, <5>1
        <5> QED BY <3>1, <5>1, <5>2
      <4> QED BY <4>1, <4>2
    <3> QED BY <2>2, <3>1, <3>2
  <2> QED BY <2>4, <2>5
<1> HIDE DEF S
<1>5. \A k \in Nat : k \in S
  BY <1>3, <1>4, EveryNumber
<1>6. Alternates(f[Len(list)])
  BY <1>1, <1>5 DEF S
<1>7. ASSUME list # <<>>, Len(list) \in places
      PROVE  f[Len(list)] # <<>> /\ Last(f[Len(list)]) = Last(list)
  <2>1. Len(list) >= 1 /\ Len(list) \in 1..Len(list) /\ Len(list) - 1 \in Nat /\ Len(list) - 1 <= Len(list)
    BY <1>1, <1>7
  <2>2. f[Len(list)] = Append(f[Len(list) - 1], list[Len(list)])
    BY <1>2, <1>7, <2>1
  <2>3. f[Len(list) - 1] \in Seq(Message) /\ list[Len(list)] \in Message
    BY <1>1, <1>5, <2>1 DEF S
  <2>4. f[Len(list)] # <<>> /\ Last(f[Len(list)]) = list[Len(list)]
    BY <2>2, <2>3 DEF Last
  <2> QED BY <2>4 DEF Last
<1> QED BY <1>2, <1>6, <1>7

-----------------------------------------------------------------------------
(* Lists that can be sent                                                  *)

\* A list whose messages alternate and end with the one to be answered.
Answerable(list) ==
  /\ list \in Seq(Message) /\ list # <<>>
  /\ Alternates(list) /\ Last(list).role = "user"

\* One list in place of another, message by message.
SameRoles(a, b) ==
  /\ b \in Seq(Message) /\ Len(b) = Len(a)
  /\ \A i \in 1..Len(a) : b[i].role = a[i].role

LEMMA SameRolesAnswerable ==
  ASSUME NEW a, NEW b, a \in Seq(Message), a # <<>>, SameRoles(a, b)
  PROVE  /\ b \in Seq(Message) /\ b # <<>>
         /\ Last(b).role = Last(a).role
         /\ Alternates(a) => Alternates(b)
<1>1. Len(a) \in Nat /\ Len(a) >= 1 /\ Len(b) = Len(a) /\ b \in Seq(Message)
  BY DEF SameRoles
<1>2. \A i \in 1..Len(a) : b[i].role = a[i].role
  BY DEF SameRoles
<1>3. b # <<>>
  BY <1>1
<1>4. Last(b).role = Last(a).role
  BY <1>1, <1>2 DEF Last
<1>5. ASSUME Alternates(a) PROVE Alternates(b)
  <2> SUFFICES ASSUME NEW i \in 1..Len(b) - 1 PROVE b[i].role # b[i + 1].role
    BY DEF Alternates
  <2>1. i \in 1..Len(a) - 1 /\ i \in 1..Len(a) /\ i + 1 \in 1..Len(a)
    BY <1>1
  <2> QED BY <1>2, <1>5, <2>1 DEF Alternates
<1> QED BY <1>1, <1>3, <1>4, <1>5

LEMMA SameRolesSelf == \A a \in Seq(Message) : SameRoles(a, a)
BY DEF SameRoles

LEMMA FillerType == \A n \in Int : Filler(n) \in Seq(Atoms) /\ Filler(n) \in Seq({Other})
<1> SUFFICES ASSUME NEW E, Other \in E, NEW n \in Int PROVE Filler(n) \in Seq(E)
  BY Constants
<1>1. Other \in E
  OBVIOUS
<1>2. CASE n >= 0
  BY <1>1, <1>2 DEF Filler
<1>3. CASE n < 0
  <2>1. 1..n = 1..0
    BY <1>3
  <2>2. Filler(n) = [i \in 1..0 |-> Other]
    BY <2>1 DEF Filler
  <2>3. [i \in 1..0 |-> Other] \in Seq(E)
    BY <1>1
  <2> QED BY <2>2, <2>3
<1> QED BY <1>2, <1>3

LEMMA UpToType ==
  ASSUME NEW E, NEW text \in Seq(E), NEW n \in Nat
  PROVE  UpTo(text, n) \in Seq(E)
<1>1. Len(text) \in Nat /\ Smaller(n, Len(text)) \in 0..Len(text)
  BY Compared
<1>2. \A k \in 0..Len(text) : SubSeq(text, 1, k) \in Seq(E)
  OBVIOUS
<1> QED BY <1>1, <1>2 DEF UpTo

LEMMA LatestType ==
  ASSUME NEW text \in Seq(Atoms), NEW n \in Nat, n <= Len(text)
  PROVE  Latest(text, n) \in Seq(Atoms)
<1>1. Len(text) \in Nat
  OBVIOUS
<1> QED BY <1>1 DEF Latest

LEMMA SaidType ==
  ASSUME NEW role \in {"system", "user", "assistant"},
         NEW kind \in {"plain", "real", "redirect", "repl", "note"}, NEW text \in Seq(Atoms)
  PROVE  /\ Said(role, kind, text) \in Message
         /\ Said(role, kind, text).role = role /\ Said(role, kind, text).kind = kind
         /\ Said(role, kind, text).text = text
BY DEF Said, Message

\* A change to a field is no change to the others.
LEMMA Changes ==
  ASSUME NEW m \in Message
  PROVE  /\ \A t \in Seq(Atoms) :
              /\ [m EXCEPT !.text = t] \in Message /\ [m EXCEPT !.text = t].role = m.role
              /\ [m EXCEPT !.text = t].kind = m.kind /\ [m EXCEPT !.text = t].text = t
         /\ \A n \in Nat :
              /\ [m EXCEPT !.reasoning = n] \in Message /\ [m EXCEPT !.reasoning = n].role = m.role
              /\ [m EXCEPT !.reasoning = n].kind = m.kind /\ [m EXCEPT !.reasoning = n].text = m.text
         /\ \A n \in Nat, t \in Seq(Atoms) :
              /\ [m EXCEPT !.images = n, !.text = t] \in Message
              /\ [m EXCEPT !.images = n, !.text = t].role = m.role
              /\ [m EXCEPT !.images = n, !.text = t].kind = m.kind
              /\ [m EXCEPT !.images = n, !.text = t].text = t
         /\ [m EXCEPT !.summary = TRUE] \in Message /\ [m EXCEPT !.summary = TRUE].role = m.role
         /\ [m EXCEPT !.summary = TRUE].kind = m.kind /\ [m EXCEPT !.summary = TRUE].text = m.text
BY DEF Message

LEMMA ReplaceOne ==
  ASSUME NEW list \in Seq(Message), NEW i \in 1..Len(list), NEW m \in Message,
         m.role = list[i].role
  PROVE  SameRoles(list, [list EXCEPT ![i] = m])
BY DEF SameRoles

LEMMA SameRolesTransitive ==
  ASSUME NEW a, NEW b, NEW c, SameRoles(a, b), SameRoles(b, c)
  PROVE  SameRoles(a, c)
BY DEF SameRoles

-----------------------------------------------------------------------------
(* Steps 1 to 3                                                            *)

IsTold(f, list, order, new, looks, goal, n) ==
  f = [k \in 0..n |->
         IF k = 0 THEN list
         ELSE IF k > 1 /\ order[k - 1] \in looks /\ AtTarget(f[k - 1], goal)
              THEN f[k - 1]
              ELSE [f[k - 1] EXCEPT ![order[k]] = new[order[k]]]]

LEMMA ToldExists ==
  ASSUME NEW list, NEW order, NEW new, NEW looks, NEW goal
  PROVE  \A n \in Nat : \E f : IsTold(f, list, order, new, looks, goal, n)
<1> DEFINE Stays(g, k) == k > 1 /\ order[k - 1] \in looks /\ AtTarget(g, goal)
           Put(g, k) == [g EXCEPT ![order[k]] = new[order[k]]]
<1> DEFINE S == {n \in Nat : \E f : IsTold(f, list, order, new, looks, goal, n)}
<1>0. \A f : \A n \in Nat : IsTold(f, list, order, new, looks, goal, n) <=>
          f = [k \in 0..n |-> IF k = 0 THEN list
                              ELSE IF Stays(f[k - 1], k) THEN f[k - 1] ELSE Put(f[k - 1], k)]
  BY DEF IsTold
<1> HIDE DEF Stays, Put
<1>1. 0 \in S
  <2> DEFINE z == [k \in 0..0 |-> list]
  <2>1. z = [k \in 0..0 |-> IF k = 0 THEN list
                            ELSE IF Stays(z[k - 1], k) THEN z[k - 1] ELSE Put(z[k - 1], k)]
    OBVIOUS
  <2> HIDE DEF z
  <2>2. IsTold(z, list, order, new, looks, goal, 0)
    BY <1>0, <2>1
  <2> QED BY <2>2
<1>2. ASSUME NEW n \in Nat, n \in S PROVE n + 1 \in S
  <2>1. PICK f : IsTold(f, list, order, new, looks, goal, n)
    BY <1>2
  <2> DEFINE g == [k \in 0..(n + 1) |->
                     IF k = n + 1 THEN IF Stays(f[n], n + 1) THEN f[n] ELSE Put(f[n], n + 1)
                     ELSE f[k]]
  <2>2. f = [k \in 0..n |-> IF k = 0 THEN list
                            ELSE IF Stays(f[k - 1], k) THEN f[k - 1] ELSE Put(f[k - 1], k)]
    BY <1>0, <2>1
  <2>3. \A k \in 0..n : f[k] = IF k = 0 THEN list
                               ELSE IF Stays(f[k - 1], k) THEN f[k - 1] ELSE Put(f[k - 1], k)
    BY <2>2
  <2>4. \A k \in 0..(n + 1) :
          g[k] = IF k = 0 THEN list
                 ELSE IF Stays(g[k - 1], k) THEN g[k - 1] ELSE Put(g[k - 1], k)
    BY <2>3
  <2>5. g = [k \in 0..(n + 1) |-> g[k]]
    OBVIOUS
  <2> HIDE DEF g
  <2>6. g = [k \in 0..(n + 1) |-> IF k = 0 THEN list
                              ELSE IF Stays(g[k - 1], k) THEN g[k - 1] ELSE Put(g[k - 1], k)]
    BY <2>4, <2>5
  <2>7. IsTold(g, list, order, new, looks, goal, n + 1)
    BY <1>0, <2>6
  <2> QED BY <2>7
<1> HIDE DEF S
<1>3. \A n \in Nat : n \in S
  BY <1>1, <1>2, EveryNumber
<1> QED BY <1>3 DEF S

\* Every message is as it was, or is one the step replaces.
Each(list, order, new, b) ==
  /\ b \in Seq(Message) /\ Len(b) = Len(list)
  /\ \A i \in 1..Len(list) :
       \/ b[i] = list[i]
       \/ b[i] = new[i] /\ \E k \in 1..Len(order) : order[k] = i

LEMMA UntilTargetEach ==
  ASSUME NEW list \in Seq(Message), NEW order \in Seq(1..Len(list)), NEW new, NEW looks, NEW goal,
         \A i \in 1..Len(list) : new[i] \in Message
  PROVE  Each(list, order, new, UntilTarget(list, order, new, looks, goal))
<1>1. Len(order) \in Nat /\ \A k \in 1..Len(order) : order[k] \in 1..Len(list)
  OBVIOUS
<1>2. \E f : IsTold(f, list, order, new, looks, goal, Len(order))
  BY <1>1, ToldExists
<1>3. UntilTarget(list, order, new, looks, goal)
        = (CHOOSE f : IsTold(f, list, order, new, looks, goal, Len(order)))[Len(order)]
  BY DEF UntilTarget, IsTold
<1>4. PICK f : /\ IsTold(f, list, order, new, looks, goal, Len(order))
               /\ UntilTarget(list, order, new, looks, goal) = f[Len(order)]
  BY <1>2, <1>3
<1>5. f[0] = list
  BY <1>1, <1>4 DEF IsTold
<1>6. \A k \in 1..Len(order) :
        f[k] \in {f[k - 1], [f[k - 1] EXCEPT ![order[k]] = new[order[k]]]}
  <2> SUFFICES ASSUME NEW k \in 1..Len(order)
               PROVE  f[k] \in {f[k - 1], [f[k - 1] EXCEPT ![order[k]] = new[order[k]]]}
    OBVIOUS
  <2> DEFINE stays == k > 1 /\ order[k - 1] \in looks /\ AtTarget(f[k - 1], goal)
             put == [f[k - 1] EXCEPT ![order[k]] = new[order[k]]]
  <2>1. k \in 0..Len(order) /\ k # 0
    BY <1>1
  <2>2. f[k] = IF k = 0 THEN list ELSE IF stays THEN f[k - 1] ELSE put
    BY <1>4, <2>1 DEF IsTold
  <2> HIDE DEF stays, put
  <2>3. f[k] \in {f[k - 1], put}
    BY <2>1, <2>2
  <2> QED BY <2>3 DEF put
<1> DEFINE S == {k \in Nat : k <= Len(order) => Each(list, order, new, f[k])}
<1>7. 0 \in S
  BY <1>5 DEF Each
<1>8. ASSUME NEW k \in Nat, k \in S PROVE k + 1 \in S
  <2> SUFFICES ASSUME k + 1 <= Len(order) PROVE Each(list, order, new, f[k + 1])
    OBVIOUS
  <2>1. k + 1 \in 1..Len(order) /\ (k + 1) - 1 = k /\ k <= Len(order)
    BY <1>1
  <2>2. Each(list, order, new, f[k])
    BY <1>8, <2>1
  <2> DEFINE p == order[k + 1]
  <2>3. p \in 1..Len(list) /\ new[p] \in Message
    BY <1>1, <2>1
  <2>4. f[k + 1] \in {f[k], [f[k] EXCEPT ![p] = new[p]]}
    BY <1>6, <2>1
  <2>5. \E j \in 1..Len(order) : order[j] = p
    BY <2>1
  <2> HIDE DEF p
  <2> DEFINE put == [f[k] EXCEPT ![p] = new[p]]
  <2>6. put \in Seq(Message) /\ Len(put) = Len(list) /\ put[p] = new[p]
        /\ \A i \in 1..Len(list) : i # p => put[i] = f[k][i]
    BY <2>2, <2>3 DEF Each
  <2> HIDE DEF put
  <2>7. Each(list, order, new, put)
    BY <2>2, <2>5, <2>6 DEF Each
  <2> QED BY <2>2, <2>4, <2>7 DEF put
<1> HIDE DEF S
<1>9. \A k \in Nat : k \in S
  BY <1>7, <1>8, EveryNumber
<1> QED BY <1>1, <1>4, <1>9 DEF S

\* Whatever messages a step replaces, and wherever it stops.
LEMMA UntilTargetRoles ==
  ASSUME NEW list \in Seq(Message), NEW order \in Seq(1..Len(list)), NEW new, NEW looks, NEW goal,
         \A i \in 1..Len(list) : new[i] \in Message /\ new[i].role = list[i].role
  PROVE  SameRoles(list, UntilTarget(list, order, new, looks, goal))
<1>1. Each(list, order, new, UntilTarget(list, order, new, looks, goal))
  BY UntilTargetEach
<1> QED BY <1>1 DEF Each, SameRoles

LEMMA PruneImagesRoles ==
  ASSUME NEW list \in Seq(Message), NEW goal
  PROVE  SameRoles(list, PruneImages(list, goal))
<1> DEFINE last == Smaller(SplitPoint(list) + 1, Len(list) - 1)
           many == {i \in 1..last : list[i].role = "user" /\ list[i].images > 1}
           new == [i \in DOMAIN list |->
                     [list[i] EXCEPT !.images = 1, !.text = @ \o Filler(list[i].images - 1)]]
           order == Reverse(InOrder(many, list))
<1>1. ASSUME NEW i \in 1..Len(list) PROVE new[i] \in Message /\ new[i].role = list[i].role
  <2>1. list[i] \in Message /\ i \in DOMAIN list
    OBVIOUS
  <2>2. list[i].images - 1 \in Int /\ list[i].text \in Seq(Atoms)
    BY <2>1, Parts
  <2>3. Filler(list[i].images - 1) \in Seq(Atoms)
    BY <2>2, FillerType
  <2>4. list[i].text \o Filler(list[i].images - 1) \in Seq(Atoms)
    BY <2>2, <2>3
  <2>5. new[i] = [list[i] EXCEPT !.images = 1, !.text = list[i].text \o Filler(list[i].images - 1)]
    BY <2>1
  <2>6. \A n \in Nat, t \in Seq(Atoms) :
          /\ [list[i] EXCEPT !.images = n, !.text = t] \in Message
          /\ [list[i] EXCEPT !.images = n, !.text = t].role = list[i].role
          /\ [list[i] EXCEPT !.images = n, !.text = t].kind = list[i].kind
          /\ [list[i] EXCEPT !.images = n, !.text = t].text = t
    BY <2>1, Changes
  <2>7. [list[i] EXCEPT !.images = 1, !.text = list[i].text \o Filler(list[i].images - 1)] \in Message
        /\ [list[i] EXCEPT !.images = 1, !.text = list[i].text \o Filler(list[i].images - 1)].role
              = list[i].role
    BY <2>4, <2>6
  <2> QED BY <2>5, <2>7
<1>2. order \in Seq(1..Len(list))
  <2>1. InOrder(many, list) \in Seq(1..Len(list))
    BY InOrderType
  <2>2. \A s \in Seq(1..Len(list)) : Reverse(s) \in Seq(1..Len(list))
    <3> SUFFICES ASSUME NEW s \in Seq(1..Len(list)) PROVE Reverse(s) \in Seq(1..Len(list))
      OBVIOUS
    <3>1. Len(s) \in Nat /\ \A i \in 1..Len(s) : (Len(s) - i) + 1 \in 1..Len(s)
      OBVIOUS
    <3>2. \A i \in 1..Len(s) : s[(Len(s) - i) + 1] \in 1..Len(list)
      BY <3>1
    <3> QED BY <3>1, <3>2 DEF Reverse
  <2> QED BY <2>1, <2>2
<1>3. PruneImages(list, goal) = UntilTarget(list, order, new, DOMAIN list, goal)
  BY DEF PruneImages
<1> HIDE DEF new, order
<1>4. SameRoles(list, UntilTarget(list, order, new, DOMAIN list, goal))
  BY <1>1, <1>2, UntilTargetRoles
<1> QED BY <1>3, <1>4

LEMMA OversizeRoles ==
  ASSUME NEW list \in Seq(Message), NEW goal
  PROVE  SameRoles(list, OversizeUserPrune(list, goal))
<1> DEFINE long == {i \in DOMAIN list : list[i].role = "user" /\ Len(list[i].text) > MaxUser}
           new == [i \in DOMAIN list |-> [list[i] EXCEPT !.text = UpTo(@, MaxUser) \o <<Other>>]]
           order == InOrder(long, list)
           looks == {i \in DOMAIN list : list[i].images = 0}
<1>1. ASSUME NEW i \in 1..Len(list) PROVE new[i] \in Message /\ new[i].role = list[i].role
  <2>1. list[i] \in Message /\ i \in DOMAIN list
    OBVIOUS
  <2>2. list[i].text \in Seq(Atoms) /\ <<Other>> \in Seq(Atoms)
    BY <2>1, Parts, Constants
  <2>3. UpTo(list[i].text, MaxUser) \in Seq(Atoms)
    BY <2>2, UpToType, Constants
  <2>4. UpTo(list[i].text, MaxUser) \o <<Other>> \in Seq(Atoms)
    BY <2>2, <2>3
  <2>5. new[i] = [list[i] EXCEPT !.text = UpTo(list[i].text, MaxUser) \o <<Other>>]
    BY <2>1
  <2> QED BY <2>1, <2>4, <2>5, Changes
<1>2. order \in Seq(1..Len(list))
  BY InOrderType
<1>3. OversizeUserPrune(list, goal) = UntilTarget(list, order, new, looks, goal)
  BY DEF OversizeUserPrune
<1> HIDE DEF new, order, looks
<1>4. SameRoles(list, UntilTarget(list, order, new, looks, goal))
  BY <1>1, <1>2, UntilTargetRoles
<1> QED BY <1>3, <1>4

LEMMA DropReasoningRoles ==
  ASSUME NEW list \in Seq(Message), NEW goal
  PROVE  SameRoles(list, DropReasoning(list, goal))
<1> DEFINE some == {i \in 1..SplitPoint(list) : list[i].role = "assistant" /\ list[i].reasoning > 0}
           new == [i \in DOMAIN list |-> [list[i] EXCEPT !.reasoning = 0]]
           order == InOrder(some, list)
<1>1. ASSUME NEW i \in 1..Len(list) PROVE new[i] \in Message /\ new[i].role = list[i].role
  <2>1. list[i] \in Message /\ i \in DOMAIN list
    OBVIOUS
  <2>2. new[i] = [list[i] EXCEPT !.reasoning = 0]
    BY <2>1
  <2> QED BY <2>1, <2>2, Changes
<1>2. order \in Seq(1..Len(list))
  BY InOrderType
<1>3. DropReasoning(list, goal) = UntilTarget(list, order, new, DOMAIN list, goal)
  BY DEF DropReasoning
<1> HIDE DEF new, order
<1>4. SameRoles(list, UntilTarget(list, order, new, DOMAIN list, goal))
  BY <1>1, <1>2, UntilTargetRoles
<1> QED BY <1>3, <1>4

-----------------------------------------------------------------------------
(* Steps 4 to 7                                                            *)

LEMMA TurnParts ==
  ASSUME NEW list, NEW limit \in Nat, NEW turn \in SummarizedTurns(list, limit)
  PROVE  /\ turn[1] \in 1..limit /\ turn[2] \in 1..limit
         /\ IsReal(list[turn[1]]) /\ NoRealIn(list, turn[1] + 1, turn[2])
         /\ turn[2] = limit \/ ~Summarised(list[turn[2] + 1])
         /\ \E first \in turn[1] + 1 .. turn[2] :
              /\ \A i \in first..turn[2] : Summarised(list[i])
              /\ \A i \in turn[1] + 1 .. first - 1 : ~Summarised(list[i])
BY DEF SummarizedTurns

\* A turn that begins where another does ends where it does.
LEMMA OneTurn ==
  ASSUME NEW list, NEW limit \in Nat,
         NEW t \in SummarizedTurns(list, limit), NEW u \in SummarizedTurns(list, limit),
         t[1] = u[1]
  PROVE  ~(t[2] < u[2])
<1> SUFFICES ASSUME t[2] < u[2] PROVE FALSE
  OBVIOUS
<1>1. t[1] \in 1..limit /\ t[2] \in 1..limit /\ u[2] \in 1..limit
  BY TurnParts
<1>2. PICK a \in t[1] + 1 .. t[2] : /\ \A i \in a..t[2] : Summarised(list[i])
                                    /\ \A i \in t[1] + 1 .. a - 1 : ~Summarised(list[i])
  BY TurnParts
<1>3. PICK b \in u[1] + 1 .. u[2] : /\ \A i \in b..u[2] : Summarised(list[i])
                                    /\ \A i \in u[1] + 1 .. b - 1 : ~Summarised(list[i])
  BY TurnParts
<1>4. ~Summarised(list[t[2] + 1])
  BY <1>1, TurnParts
<1>5. t[2] + 1 < b
  <2>1. t[2] + 1 \notin b..u[2]
    BY <1>3, <1>4
  <2> QED BY <1>1, <1>3, <2>1
<1>6. t[2] \in u[1] + 1 .. b - 1 /\ t[2] \in a..t[2]
  BY <1>1, <1>2, <1>3, <1>5
<1> QED BY <1>2, <1>3, <1>6

\* Between two messages that stay, what goes is one turn: its request and its
\* last reply come to stand side by side.
LEMMA StandTogether ==
  ASSUME NEW list \in Seq(Message), Alternates(list), NEW limit \in 0..Len(list),
         NEW places, places = {i \in DOMAIN list : \A turn \in SummarizedTurns(list, limit) :
                                 ~(turn[1] < i /\ i < turn[2])},
         NEW i \in 1..Len(list), NEW j \in 1..Len(list), i < j, i \in places, j \in places,
         \A k \in i + 1 .. j - 1 : k \notin places
  PROVE  list[i].role # list[j].role
<1>0. Len(list) \in Nat /\ limit \in Nat /\ limit <= Len(list)
  OBVIOUS
<1>1. CASE j = i + 1
  <2>1. i \in 1..Len(list) - 1
    BY <1>0, <1>1
  <2> QED BY <1>1, <2>1 DEF Alternates
<1>2. CASE j # i + 1
  <2>1. i + 1 \in i + 1 .. j - 1 /\ i + 1 \in DOMAIN list
    BY <1>0, <1>2
  <2>2. i + 1 \notin places
    BY <2>1
  <2>3. PICK t \in SummarizedTurns(list, limit) : t[1] < i + 1 /\ i + 1 < t[2]
    BY <2>1, <2>2
  <2>4. /\ t[1] \in 1..limit /\ t[2] \in 1..limit /\ IsReal(list[t[1]])
        /\ NoRealIn(list, t[1] + 1, t[2])
    BY <1>0, TurnParts
  <2>5. ~(t[1] < i /\ i < t[2]) /\ ~(t[1] < j /\ j < t[2])
    OBVIOUS
  <2>6. t[1] = i
    BY <1>0, <2>3, <2>4, <2>5
  <2>7. t[2] <= j
    BY <1>0, <2>3, <2>4, <2>5, <2>6
  <2>8. t[2] = j
    <3> SUFFICES ASSUME t[2] # j PROVE FALSE
      OBVIOUS
    <3>1. t[2] \in i + 1 .. j - 1 /\ t[2] \in DOMAIN list
      BY <1>0, <2>3, <2>4, <2>7
    <3>2. t[2] \notin places
      BY <3>1
    <3>3. PICK u \in SummarizedTurns(list, limit) : u[1] < t[2] /\ t[2] < u[2]
      BY <3>1, <3>2
    <3>4. u[1] \in 1..limit /\ u[2] \in 1..limit /\ IsReal(list[u[1]])
      BY <1>0, TurnParts
    <3>5. ~(u[1] < i /\ i < u[2])
      OBVIOUS
    <3>6. u[1] # i
      BY <1>0, <2>6, <3>3, OneTurn
    <3>7. u[1] \in t[1] + 1 .. t[2]
      BY <1>0, <2>3, <2>4, <2>6, <3>3, <3>4, <3>5, <3>6
    <3> QED BY <2>4, <3>4, <3>7 DEF NoRealIn
  <2>9. Summarised(list[t[2]])
    <3>1. PICK first \in t[1] + 1 .. t[2] : \A k \in first..t[2] : Summarised(list[k])
      BY <1>0, TurnParts
    <3>2. t[2] \in first..t[2]
      BY <2>4, <3>1
    <3> QED BY <3>1, <3>2
  <2> QED BY <2>4, <2>6, <2>8, <2>9 DEF IsReal, Summarised
<1> QED BY <1>1, <1>2

\* What a step may do to a list: it ends as it did, and can be sent as it was.
Keeps(a, b) ==
  /\ b \in Seq(Message) /\ b # <<>>
  /\ Alternates(b) /\ Last(b).role = Last(a).role

LEMMA KeepsSelf ==
  ASSUME NEW a \in Seq(Message), a # <<>>, Alternates(a)
  PROVE  Keeps(a, a)
BY DEF Keeps

LEMMA CollapseKeeps ==
  ASSUME NEW list \in Seq(Message), list # <<>>, Alternates(list), NEW limit \in 0..Len(list)
  PROVE  Keeps(list, CollapseTurns(list, limit))
<1> DEFINE turns  == SummarizedTurns(list, limit)
           places == {i \in DOMAIN list : \A turn \in turns : ~(turn[1] < i /\ i < turn[2])}
           ends   == {turn[2] : turn \in turns}
           told   == [Said("assistant", "plain", <<Other>>) EXCEPT !.summary = TRUE]
           new    == [i \in DOMAIN list |-> IF i \in ends THEN told ELSE list[i]]
<1>0. Len(list) \in Nat /\ Len(list) >= 1 /\ limit \in Nat /\ limit <= Len(list)
  OBVIOUS
<1>1. told \in Message /\ told.role = "assistant"
  <2>1. <<Other>> \in Seq(Atoms)
    BY Constants
  <2>2. Said("assistant", "plain", <<Other>>) \in Message
        /\ Said("assistant", "plain", <<Other>>).role = "assistant"
    BY <2>1, SaidType
  <2> QED BY <2>2, Changes
<1>2. \A i \in 1..Len(list) : i \in ends => list[i].role = "assistant"
  <2> SUFFICES ASSUME NEW turn \in turns PROVE list[turn[2]].role = "assistant"
    OBVIOUS
  <2>1. PICK first \in turn[1] + 1 .. turn[2] : \A k \in first..turn[2] : Summarised(list[k])
    BY <1>0, TurnParts
  <2>2. turn[2] \in first..turn[2]
    BY <1>0, <2>1, TurnParts
  <2> QED BY <2>1, <2>2 DEF Summarised
<1> HIDE DEF told, ends
<1>3. SameRoles(list, new)
  <2>1. \A i \in 1..Len(list) : new[i] \in Message /\ new[i].role = list[i].role
    BY <1>1, <1>2
  <2>2. DOMAIN new = 1..Len(list) /\ new = [i \in DOMAIN new |-> new[i]]
    OBVIOUS
  <2> HIDE DEF new
  <2>3. new \in [1..Len(list) -> Message]
    BY <2>1, <2>2
  <2>4. new \in Seq(Message) /\ Len(new) = Len(list)
    BY <1>0, <2>3
  <2> QED BY <2>1, <2>4 DEF SameRoles
<1>4. new \in Seq(Message) /\ Len(new) = Len(list) /\ new # <<>> /\ Last(new).role = Last(list).role
      /\ \A i \in 1..Len(list) : new[i].role = list[i].role
  BY <1>3, SameRolesAnswerable DEF SameRoles
<1> HIDE DEF new
<1>5. \A i, j \in 1..Len(new) :
        /\ i < j /\ i \in places /\ j \in places
        /\ \A k \in i + 1 .. j - 1 : k \notin places
        => new[i].role # new[j].role
  <2> SUFFICES ASSUME NEW i \in 1..Len(list), NEW j \in 1..Len(list),
                      i < j, i \in places, j \in places,
                      \A k \in i + 1 .. j - 1 : k \notin places
               PROVE  new[i].role # new[j].role
    BY <1>4
  <2>1. list[i].role # list[j].role
    BY StandTogether
  <2> QED BY <1>4, <2>1
<1>6. Len(new) \in places
  <2>1. Len(list) \in DOMAIN list
    BY <1>0
  <2>2. \A turn \in turns : ~(Len(list) < turn[2])
    BY <1>0, TurnParts
  <2> QED BY <1>4, <2>1, <2>2
<1> HIDE DEF places
<1>7. /\ Alternates(KeptAt(places, new)) /\ KeptAt(places, new) # <<>>
      /\ Last(KeptAt(places, new)) = Last(new)
  BY <1>4, <1>5, <1>6, KeptAlternates
<1>8. KeptAt(places, new) \in Seq(Message)
  BY <1>4, KeptAtType
<1>9. CollapseTurns(list, limit) = IF Len(list) < 3 THEN list ELSE KeptAt(places, new)
  BY DEF CollapseTurns, places, new, ends, told
<1> QED BY <1>4, <1>7, <1>8, <1>9 DEF Keeps

LEMMA RedactedKeeps ==
  ASSUME NEW list \in Seq(Message), list # <<>>, Alternates(list), NEW limit \in 0..Len(list),
         NEW block \in Blocks(list, limit)
  PROVE  Keeps(list, Redacted(list, block))
<1> DEFINE a == block[1]
           b == block[2]
           d == Redacted(list, block)
           n == Len(list)
<1>1. /\ a \in 1..n /\ b \in 1..n /\ a + 1 < b
      /\ list[a].role = "user" /\ list[b].role = "assistant"
  BY DEF Blocks, IsReal
<1> HIDE DEF a, b
<1>2. n \in Nat
  OBVIOUS
<1>3. d = SubSeq(list, 1, a) \o SubSeq(list, b, n)
  BY DEF Redacted, a, b
<1>4. /\ SubSeq(list, 1, a) \in Seq(Message) /\ Len(SubSeq(list, 1, a)) = a
      /\ \A i \in 1..a : SubSeq(list, 1, a)[i] = list[i]
  BY <1>1
<1>5. /\ SubSeq(list, b, n) \in Seq(Message) /\ Len(SubSeq(list, b, n)) = n - b + 1
      /\ \A i \in 1..n - b + 1 : SubSeq(list, b, n)[i] = list[b + i - 1]
  BY <1>1
<1>6. d \in Seq(Message) /\ Len(d) = a + (n - b + 1)
  BY <1>1, <1>3, <1>4, <1>5
<1>7. \A i \in 1..a : d[i] = list[i]
  BY <1>1, <1>3, <1>4, <1>5
<1>8. \A i \in a + 1 .. Len(d) : d[i] = list[b + (i - a) - 1]
  <2> SUFFICES ASSUME NEW i \in a + 1 .. Len(d) PROVE d[i] = list[b + (i - a) - 1]
    OBVIOUS
  <2>1. i - a \in 1..n - b + 1
    BY <1>1, <1>2, <1>6
  <2>2. d[i] = SubSeq(list, b, n)[i - a]
    BY <1>1, <1>3, <1>4, <1>5, <1>6
  <2> QED BY <1>5, <2>1, <2>2
<1> HIDE DEF d
<1>9. ASSUME NEW i \in 1..Len(d) - 1 PROVE d[i].role # d[i + 1].role
  <2>1. CASE i < a
    <3>1. i \in 1..a /\ i + 1 \in 1..a /\ i \in 1..n - 1
      BY <1>1, <1>2, <2>1
    <3> QED BY <1>7, <3>1 DEF Alternates
  <2>2. CASE i = a
    <3>1. d[i] = list[a]
      BY <1>1, <1>7, <2>2
    <3>2. i + 1 \in a + 1 .. Len(d) /\ b + ((i + 1) - a) - 1 = b
      BY <1>1, <1>2, <1>6, <2>2
    <3>3. d[i + 1] = list[b]
      BY <1>8, <3>2
    <3> QED BY <1>1, <3>1, <3>3
  <2>3. CASE i > a
    <3> DEFINE j == b + (i - a) - 1
    <3>1. i \in a + 1 .. Len(d) /\ i + 1 \in a + 1 .. Len(d)
          /\ b + ((i + 1) - a) - 1 = j + 1 /\ j \in 1..n - 1
      BY <1>1, <1>2, <1>6, <2>3
    <3>2. d[i] = list[j] /\ d[i + 1] = list[j + 1]
      BY <1>8, <3>1
    <3> QED BY <3>1, <3>2 DEF Alternates
  <2> QED BY <1>1, <2>1, <2>2, <2>3
<1>10. d # <<>> /\ Last(d) = Last(list)
  <2>1. Len(d) \in a + 1 .. Len(d) /\ b + (Len(d) - a) - 1 = n
    BY <1>1, <1>2, <1>6
  <2>2. d[Len(d)] = list[n]
    BY <1>8, <2>1
  <2>3. d # <<>>
    BY <1>1, <1>2, <1>6
  <2> QED BY <2>2, <2>3 DEF Last
<1>11. Alternates(d)
  BY <1>9 DEF Alternates
<1> QED BY <1>6, <1>10, <1>11 DEF Keeps, d

\* The first block is one of the blocks.
LEMMA RedactFirstCases ==
  ASSUME NEW list \in Seq(Message), NEW useBoundary, NEW goal
  PROVE  \/ RedactFirst(list, useBoundary, goal) = list
         \/ \E limit \in 0..Len(list) : \E block \in Blocks(list, limit) :
              RedactFirst(list, useBoundary, goal) = Redacted(list, block)
<1> DEFINE limit  == IF useBoundary THEN SplitPoint(list) ELSE Len(list)
           blocks == Blocks(list, limit)
           block  == CHOOSE b \in blocks : \A c \in blocks : b[1] <= c[1]
<1>1. limit \in 0..Len(list)
  BY SplitPointType
<1>2. RedactFirst(list, useBoundary, goal)
        = IF AtTarget(list, goal) \/ blocks = {} THEN list ELSE Redacted(list, block)
  BY DEF RedactFirst
<1> HIDE DEF limit
<1>3. CASE AtTarget(list, goal) \/ blocks = {}
  BY <1>2, <1>3
<1>4. CASE ~AtTarget(list, goal) /\ blocks # {}
  <2> DEFINE starts == {n \in Nat : \E b \in blocks : b[1] = n}
  <2>1. \A b \in blocks : b[1] \in Nat
    BY <1>1 DEF Blocks
  <2> HIDE DEF blocks
  <2>2. starts \in SUBSET Nat /\ starts # {} /\ \A b \in blocks : b[1] \in starts
    BY <1>4, <2>1
  <2>3. PICK n \in starts : \A k \in starts : n <= k
    BY <2>2, LeastNumber
  <2>4. PICK b \in blocks : b[1] = n
    BY <2>3
  <2>5. \A c \in blocks : b[1] <= c[1]
    BY <2>2, <2>3, <2>4
  <2>6. block \in blocks
    BY <2>4, <2>5
  <2> HIDE DEF block
  <2>7. block \in Blocks(list, limit)
    BY <2>6 DEF blocks
  <2> QED BY <1>1, <1>2, <1>4, <2>7
<1> QED BY <1>3, <1>4

LEMMA RedactFirstKeeps ==
  ASSUME NEW list \in Seq(Message), list # <<>>, Alternates(list), NEW useBoundary, NEW goal
  PROVE  Keeps(list, RedactFirst(list, useBoundary, goal))
BY RedactFirstCases, KeepsSelf, RedactedKeeps

IsRedacting(f, list, useBoundary, goal, n) ==
  f = [k \in 0..n |-> IF k = 0 THEN list ELSE RedactFirst(f[k - 1], useBoundary, goal)]

LEMMA RedactingExists ==
  ASSUME NEW list, NEW useBoundary, NEW goal
  PROVE  \A n \in Nat : \E f : IsRedacting(f, list, useBoundary, goal, n)
<1> DEFINE S == {n \in Nat : \E f : IsRedacting(f, list, useBoundary, goal, n)}
<1>1. 0 \in S
  <2>1. IsRedacting([k \in 0..0 |-> list], list, useBoundary, goal, 0)
    BY DEF IsRedacting
  <2> QED BY <2>1
<1>2. ASSUME NEW n \in Nat, n \in S PROVE n + 1 \in S
  <2>1. PICK f : IsRedacting(f, list, useBoundary, goal, n)
    BY <1>2
  <2> DEFINE g == [k \in 0..(n + 1) |->
                     IF k = n + 1 THEN RedactFirst(f[n], useBoundary, goal) ELSE f[k]]
  <2>2. \A k \in 0..n : f[k] = IF k = 0 THEN list ELSE RedactFirst(f[k - 1], useBoundary, goal)
    BY <2>1 DEF IsRedacting
  <2>3. \A k \in 0..(n + 1) :
          g[k] = IF k = 0 THEN list ELSE RedactFirst(g[k - 1], useBoundary, goal)
    BY <2>2
  <2>4. g = [k \in 0..(n + 1) |-> g[k]]
    OBVIOUS
  <2>5. IsRedacting(g, list, useBoundary, goal, n + 1)
    <3> HIDE DEF g
    <3> QED BY <2>3, <2>4 DEF IsRedacting
  <2> QED BY <2>5
<1> HIDE DEF S
<1>3. \A n \in Nat : n \in S
  BY <1>1, <1>2, EveryNumber
<1> QED BY <1>3 DEF S

LEMMA RedactBlocksKeeps ==
  ASSUME NEW list \in Seq(Message), list # <<>>, Alternates(list), NEW useBoundary, NEW goal
  PROVE  Keeps(list, RedactBlocks(list, useBoundary, goal))
<1>1. \E f : IsRedacting(f, list, useBoundary, goal, Len(list))
  <2>1. Len(list) \in Nat
    OBVIOUS
  <2> QED BY <2>1, RedactingExists
<1>2. RedactBlocks(list, useBoundary, goal)
        = (CHOOSE f : IsRedacting(f, list, useBoundary, goal, Len(list)))[Len(list)]
  BY DEF RedactBlocks, IsRedacting
<1>3. PICK f : /\ IsRedacting(f, list, useBoundary, goal, Len(list))
               /\ RedactBlocks(list, useBoundary, goal) = f[Len(list)]
  BY <1>1, <1>2
<1>4. f[0] = list
  BY <1>3 DEF IsRedacting
<1>5. \A k \in 1..Len(list) : f[k] = RedactFirst(f[k - 1], useBoundary, goal)
  BY <1>3 DEF IsRedacting
<1> DEFINE S == {k \in Nat : k <= Len(list) => Keeps(list, f[k])}
<1>6. 0 \in S
  BY <1>4, KeepsSelf
<1>7. ASSUME NEW k \in Nat, k \in S PROVE k + 1 \in S
  <2> SUFFICES ASSUME k + 1 <= Len(list) PROVE Keeps(list, f[k + 1])
    OBVIOUS
  <2>1. k + 1 \in 1..Len(list) /\ (k + 1) - 1 = k /\ k <= Len(list)
    OBVIOUS
  <2>2. Keeps(list, f[k])
    BY <1>7, <2>1
  <2>3. f[k + 1] = RedactFirst(f[k], useBoundary, goal)
    BY <1>5, <2>1
  <2>4. Keeps(f[k], f[k + 1])
    BY <2>2, <2>3, RedactFirstKeeps DEF Keeps
  <2> QED BY <2>2, <2>4 DEF Keeps
<1> HIDE DEF S
<1>8. \A k \in Nat : k \in S
  BY <1>6, <1>7, EveryNumber
<1>9. Len(list) \in Nat /\ Len(list) <= Len(list)
  OBVIOUS
<1> QED BY <1>3, <1>8, <1>9 DEF S

-----------------------------------------------------------------------------
(* Steps 8 to 10                                                           *)

LEMMA RebuiltAnswerable ==
  ASSUME NEW list \in Seq(Message), NEW text \in Seq(Atoms), NEW kind \in {"real", "redirect"}
  PROVE  /\ Answerable(SystemOf(list) \o <<Said("user", kind, text)>>)
         /\ Last(SystemOf(list) \o <<Said("user", kind, text)>>) = Said("user", kind, text)
<1> DEFINE m == Said("user", kind, text)
<1>1. m \in Message /\ m.role = "user"
  BY SaidType
<1> HIDE DEF m
<1>2. CASE list # <<>> /\ list[1].role = "system"
  <2>1. list[1] \in Message
    BY <1>2
  <2> DEFINE d == SystemOf(list) \o <<m>>
  <2>2. SystemOf(list) = <<list[1]>>
    BY <1>2 DEF SystemOf
  <2>3. d \in Seq(Message) /\ Len(d) = 2 /\ d[1] = list[1] /\ d[2] = m
    BY <1>1, <2>1, <2>2
  <2> HIDE DEF d
  <2>4. d # <<>> /\ Last(d) = m
    <3>1. Len(<<>>) = 0 /\ Len(d) # 0
      BY <2>3
    <3>2. d[Len(d)] = m
      BY <2>3
    <3> QED BY <3>1, <3>2 DEF Last
  <2>5. Alternates(d)
    <3>1. 1..Len(d) - 1 = {1}
      BY <2>3
    <3> QED BY <1>1, <1>2, <2>3, <3>1 DEF Alternates
  <2> QED BY <1>1, <2>3, <2>4, <2>5 DEF Answerable, d, m
<1>3. CASE ~(list # <<>> /\ list[1].role = "system")
  <2>1. SystemOf(list) \o <<m>> = <<m>>
    <3>1. SystemOf(list) = <<>>
      BY <1>3 DEF SystemOf
    <3>2. \A b \in Message : <<>> \o <<b>> = <<b>>
      OBVIOUS
    <3> QED BY <1>1, <3>1, <3>2
  <2>2. Alternates(<<m>>)
    BY DEF Alternates
  <2>3. <<m>> \in Seq(Message) /\ <<m>> # <<>> /\ Last(<<m>>) = m
    BY <1>1 DEF Last
  <2> QED BY <1>1, <2>1, <2>2, <2>3 DEF Answerable, m
<1> QED BY <1>2, <1>3

LEMMA FullResetAnswerable ==
  ASSUME NEW list, Answerable(list), NEW summary \in Nat, NEW plan \in Nat
  PROVE  Answerable(FullReset(list, summary, plan))
<1> DEFINE I    == {i \in 1..Len(list) : IsReal(list[i])}
           last == SelectLastInSeq(list, IsReal)
           text == Filler(summary + plan) \o UpTo(list[last].text, MaxRequest)
           new  == Rebuilt(list, text)
<1>1. FullReset(list, summary, plan)
        = IF last = 0 \/ summary = 0 THEN list
          ELSE IF Size(new) >= Size(list) THEN list ELSE new
  BY DEF FullReset
<1>2. list \in Seq(Message) /\ Len(list) \in Nat
  BY DEF Answerable
<1>3. last = IF I # {} THEN Max(I) ELSE 0
  BY DEF SelectLastInSeq
<1> HIDE DEF last
<1>4. ASSUME last # 0 PROVE Answerable(new)
  <2>1. I # {} /\ I \in SUBSET (1..Len(list))
    BY <1>3, <1>4
  <2>2. last \in I
    <3> HIDE DEF I
    <3> QED BY <1>2, <1>3, <2>1, SmallestPosition, LargestPosition
  <2>3. list[last] \in Message
    BY <1>2, <2>2
  <2>4. list[last].text \in Seq(Atoms)
    BY <2>3, Parts
  <2>5. UpTo(list[last].text, MaxRequest) \in Seq(Atoms)
    BY <2>4, UpToType, Constants
  <2>6. Filler(summary + plan) \in Seq(Atoms)
    BY FillerType
  <2>7. text \in Seq(Atoms)
    BY <2>5, <2>6
  <2> HIDE DEF text
  <2> QED BY <1>2, <2>7, RebuiltAnswerable DEF Rebuilt
<1> HIDE DEF new
<1> QED BY <1>1, <1>4

IsJoined(f, parts, n) == f = [k \in 0..n |-> IF k = 0 THEN <<>> ELSE f[k - 1] \o parts[k]]

LEMMA JoinedExists ==
  ASSUME NEW parts
  PROVE  \A n \in Nat : \E f : IsJoined(f, parts, n)
<1> DEFINE S == {n \in Nat : \E f : IsJoined(f, parts, n)}
<1>1. 0 \in S
  <2>1. IsJoined([k \in 0..0 |-> <<>>], parts, 0)
    BY DEF IsJoined
  <2> QED BY <2>1
<1>2. ASSUME NEW n \in Nat, n \in S PROVE n + 1 \in S
  <2>1. PICK f : IsJoined(f, parts, n)
    BY <1>2
  <2> DEFINE g == [k \in 0..(n + 1) |-> IF k = n + 1 THEN f[n] \o parts[n + 1] ELSE f[k]]
  <2>2. \A k \in 0..n : f[k] = IF k = 0 THEN <<>> ELSE f[k - 1] \o parts[k]
    BY <2>1 DEF IsJoined
  <2>3. \A k \in 0..(n + 1) : g[k] = IF k = 0 THEN <<>> ELSE g[k - 1] \o parts[k]
    BY <2>2
  <2>4. g = [k \in 0..(n + 1) |-> g[k]]
    OBVIOUS
  <2>5. IsJoined(g, parts, n + 1)
    <3> HIDE DEF g
    <3> QED BY <2>3, <2>4 DEF IsJoined
  <2> QED BY <2>5
<1> HIDE DEF S
<1>3. \A n \in Nat : n \in S
  BY <1>1, <1>2, EveryNumber
<1> QED BY <1>3 DEF S

LEMMA JoinedType ==
  ASSUME NEW E, NEW parts \in Seq(Seq(E))
  PROVE  Joined(parts) \in Seq(E)
<1>1. Len(parts) \in Nat /\ \A k \in 1..Len(parts) : parts[k] \in Seq(E)
  OBVIOUS
<1>2. \E f : IsJoined(f, parts, Len(parts))
  BY <1>1, JoinedExists
<1>3. Joined(parts) = (CHOOSE f : IsJoined(f, parts, Len(parts)))[Len(parts)]
  BY DEF Joined, IsJoined
<1>4. PICK f : IsJoined(f, parts, Len(parts)) /\ Joined(parts) = f[Len(parts)]
  BY <1>2, <1>3
<1>5. \A k \in 0..Len(parts) : f[k] = IF k = 0 THEN <<>> ELSE f[k - 1] \o parts[k]
  BY <1>4 DEF IsJoined
<1> DEFINE S == {k \in Nat : k <= Len(parts) => f[k] \in Seq(E)}
<1>6. 0 \in S
  <2>1. f[0] = <<>> /\ <<>> \in Seq(E)
    BY <1>1, <1>5
  <2> QED BY <2>1
<1>7. ASSUME NEW k \in Nat, k \in S PROVE k + 1 \in S
  <2> SUFFICES ASSUME k + 1 <= Len(parts) PROVE f[k + 1] \in Seq(E)
    OBVIOUS
  <2>1. k + 1 \in 0..Len(parts) /\ k + 1 \in 1..Len(parts) /\ (k + 1) - 1 = k /\ k + 1 # 0
    BY <1>1
  <2>2. f[k] \in Seq(E) /\ parts[k + 1] \in Seq(E)
    BY <1>1, <1>7, <2>1
  <2>3. f[k + 1] = f[k] \o parts[k + 1]
    BY <1>5, <2>1
  <2> QED BY <2>2, <2>3
<1> HIDE DEF S
<1>8. \A k \in Nat : k \in S
  BY <1>6, <1>7, EveryNumber
<1> QED BY <1>1, <1>4, <1>8 DEF S

LEMMA ShownType ==
  ASSUME NEW m \in Message
  PROVE  Shown(m) \in Seq(Atoms)
<1>1. <<Other>> \in Seq(Atoms) /\ m.text \in Seq(Atoms)
  BY Constants, Parts
<1>2. UpTo(m.text, MaxItem) \in Seq(Atoms)
  BY <1>1, UpToType, Constants
<1> QED BY <1>1, <1>2 DEF Shown

LEMMA CutsType ==
  ASSUME NEW E, NEW list \in Seq({m \in Message : m.text \in Seq(E)}), NEW n \in Nat
  PROVE  Joined([i \in DOMAIN list |-> UpTo(list[i].text, n)]) \in Seq(E)
<1> DEFINE parts == [i \in DOMAIN list |-> UpTo(list[i].text, n)]
<1>1. \A i \in 1..Len(list) : UpTo(list[i].text, n) \in Seq(E)
  <2> SUFFICES ASSUME NEW i \in 1..Len(list) PROVE UpTo(list[i].text, n) \in Seq(E)
    OBVIOUS
  <2>1. list[i] \in {m \in Message : m.text \in Seq(E)}
    OBVIOUS
  <2>2. list[i].text \in Seq(E)
    BY <2>1
  <2> QED BY <2>2, UpToType
<1>2. parts \in Seq(Seq(E))
  BY <1>1
<1> HIDE DEF parts
<1>3. Joined(parts) \in Seq(E)
  BY <1>2, JoinedType
<1> QED BY <1>3 DEF parts

\* What is kept is among what stands at the positions.
LEMMA KeptAmong ==
  ASSUME NEW E, NEW list \in Seq(E), NEW F, NEW places,
         \A i \in 1..Len(list) : i \in places => list[i] \in F
  PROVE  KeptAt(places, list) \in Seq(F)
<1>1. PICK h : /\ Picks(h, places, Len(list)) /\ Len(KeptAt(places, list)) = Len(h)
               /\ \A a \in 1..Len(h) : KeptAt(places, list)[a] = list[h[a]]
  BY KeptPicks
<1> DEFINE kept == KeptAt(places, list)
<1>2. kept \in Seq(E)
  BY KeptAtType
<1>3. \A a \in 1..Len(h) : h[a] \in 1..Len(list) /\ h[a] \in places
  BY <1>1 DEF Picks
<1>4. \A a \in 1..Len(kept) : kept[a] \in F
  BY <1>1, <1>3
<1> HIDE DEF kept
<1>5. kept \in Seq(F)
  BY <1>2, <1>4
<1> QED BY <1>5 DEF kept

\* What a turn tells is what its replies and its outputs are made of.
LEMMA ToldType ==
  ASSUME NEW E, NEW list \in Seq(Message), NEW from \in 1..Len(list), NEW to \in 0..Len(list),
         \A i \in 1..Len(list) :
           list[i].role = "assistant" \/ IsRepl(list[i]) => list[i].text \in Seq(E)
  PROVE  Told(list, from, to) \in Seq(E)
<1> DEFINE F       == {m \in Message : m.text \in Seq(E)}
           part    == SubSeq(list, from, to)
           replies == KeptAt({i \in DOMAIN part : part[i].role = "assistant"}, part)
           outputs == KeptAt({i \in DOMAIN part : IsRepl(part[i])}, part)
           latest  == SubSeq(outputs, Larger(1, Len(outputs) - MaxReplItems + 1), Len(outputs))
<1>1. part \in Seq(Message)
  OBVIOUS
<1>2. \A i \in 1..Len(part) : \E j \in 1..Len(list) : part[i] = list[j]
  <2> SUFFICES ASSUME NEW i \in 1..Len(part) PROVE \E j \in 1..Len(list) : part[i] = list[j]
    OBVIOUS
  <2>1. from + i - 1 \in 1..Len(list) /\ part[i] = list[from + i - 1]
    OBVIOUS
  <2> QED BY <2>1
<1> HIDE DEF part
<1>3. \A i \in 1..Len(part) :
        part[i] \in Message /\ (part[i].role = "assistant" \/ IsRepl(part[i]) => part[i].text \in Seq(E))
  BY <1>1, <1>2
<1>4. replies \in Seq(F)
  <2>1. \A i \in 1..Len(part) : i \in {k \in DOMAIN part : part[k].role = "assistant"} => part[i] \in F
    BY <1>3
  <2> HIDE DEF F
  <2> QED BY <1>1, <2>1, KeptAmong
<1>5. outputs \in Seq(F)
  <2>1. \A i \in 1..Len(part) : i \in {k \in DOMAIN part : IsRepl(part[k])} => part[i] \in F
    BY <1>3
  <2> HIDE DEF F
  <2> QED BY <1>1, <2>1, KeptAmong
<1>6. Told(list, from, to) = Joined([i \in DOMAIN replies |-> UpTo(replies[i].text, MaxItem)])
                               \o Joined([i \in DOMAIN latest |-> UpTo(latest[i].text, 1)])
  BY DEF Told, part
<1> HIDE DEF replies, outputs
<1>7. latest \in Seq(F)
  <2> HIDE DEF F
  <2> DEFINE first == Larger(1, Len(outputs) - MaxReplItems + 1)
  <2>1. Len(outputs) \in Nat /\ Len(outputs) - MaxReplItems + 1 \in Int
    BY <1>5, Constants
  <2>2. first \in Nat /\ first >= 1
    BY <2>1, Compared
  <2> HIDE DEF first
  <2>3. SubSeq(outputs, first, Len(outputs)) \in Seq(F)
    BY <1>5, <2>1, <2>2
  <2> QED BY <2>3 DEF first
<1> HIDE DEF latest
<1>8. Joined([i \in DOMAIN replies |-> UpTo(replies[i].text, MaxItem)]) \in Seq(E)
  BY <1>4, CutsType, Constants
<1>9. Joined([i \in DOMAIN latest |-> UpTo(latest[i].text, 1)]) \in Seq(E)
  BY <1>7, CutsType
<1> QED BY <1>6, <1>8, <1>9

LEMMA TaskOfType ==
  ASSUME NEW list \in Seq(Message), NEW begin \in 1..Len(list)
  PROVE  TaskOf(list, begin) \in Seq(Atoms)
<1> DEFINE I    == {i \in 1..Len(list) : Begins(list[i]) /\ list[i].kind # "note"}
           real == IF I # {} THEN Max(I) ELSE 0
           at   == IF list[begin].kind = "note" /\ real > 0 THEN real ELSE begin
<1>1. TaskOf(list, begin) = Shown(list[at])
  BY DEF TaskOf, SelectLastInSeq
<1>2. real > 0 => real \in 1..Len(list)
  <2>1. Len(list) \in Nat /\ I \in SUBSET (1..Len(list))
    OBVIOUS
  <2> HIDE DEF I
  <2>2. I # {} => Max(I) \in I
    BY <2>1, SmallestPosition, LargestPosition
  <2>3. I = {} => ~(real > 0)
    OBVIOUS
  <2> QED BY <2>1, <2>2, <2>3
<1> HIDE DEF real
<1>3. at \in 1..Len(list)
  BY <1>2
<1> HIDE DEF at
<1>4. list[at] \in Message
  BY <1>3
<1> QED BY <1>1, <1>4, ShownType

\* The old turns and the task, as the summary tells them.
LEMMA HistoryType ==
  ASSUME NEW list \in Seq(Message),
         NEW begins, begins = InOrder({i \in DOMAIN list : Begins(list[i])}, list)
  PROVE  /\ Joined([k \in 1..Len(begins) - 1 |->
              Shown(list[begins[k]]) \o Told(list, begins[k], begins[k + 1] - 1)]) \in Seq(Atoms)
         /\ (IF begins = <<>> THEN <<Task>>
             ELSE <<Task>> \o TaskOf(list, Last(begins)) \o Told(list, Last(begins), Len(list)))
              \in Seq(Atoms)
<1> DEFINE current == Last(begins)
           history == Joined([k \in 1..Len(begins) - 1 |->
                        Shown(list[begins[k]]) \o Told(list, begins[k], begins[k + 1] - 1)])
           task    == IF begins = <<>> THEN <<Task>>
                      ELSE <<Task>> \o TaskOf(list, current) \o Told(list, current, Len(list))
<1>2. list \in Seq(Message) /\ Len(list) \in Nat
  OBVIOUS
<1>3. begins \in Seq(1..Len(list)) /\ Len(begins) \in Nat
  <2>1. begins \in Seq(1..Len(list))
    BY <1>2, InOrderType
  <2> QED BY <2>1
<1>4. \A k \in 1..Len(begins) : begins[k] \in 1..Len(list)
  BY <1>3
<1>9. \A i \in 1..Len(list) : list[i].text \in Seq(Atoms)
  <2>1. \A i \in 1..Len(list) : list[i] \in Message
    BY <1>2
  <2> QED BY <2>1, Parts
<1>5. history \in Seq(Atoms)
  <2> DEFINE parts == [k \in 1..Len(begins) - 1 |->
                        Shown(list[begins[k]]) \o Told(list, begins[k], begins[k + 1] - 1)]
  <2>1. ASSUME NEW k \in 1..Len(begins) - 1
        PROVE Shown(list[begins[k]]) \o Told(list, begins[k], begins[k + 1] - 1) \in Seq(Atoms)
    <3>1. k \in 1..Len(begins) /\ k + 1 \in 1..Len(begins)
      BY <1>3
    <3>2. begins[k] \in 1..Len(list) /\ begins[k + 1] \in 1..Len(list)
      BY <1>4, <3>1
    <3>3. list[begins[k]] \in Message /\ begins[k + 1] - 1 \in 0..Len(list)
      BY <1>2, <3>2
    <3>4. Shown(list[begins[k]]) \in Seq(Atoms)
      BY <3>3, ShownType
    <3>5. Told(list, begins[k], begins[k + 1] - 1) \in Seq(Atoms)
      BY <1>2, <1>9, <3>2, <3>3, ToldType
    <3> QED BY <3>4, <3>5
  <2>2. CASE Len(begins) = 0
    <3>1. 1..Len(begins) - 1 = 1..0
      <4>1. \A k : k \in 1..Len(begins) - 1 => FALSE
        BY <1>3, <2>2
      <4>2. \A k : k \in 1..0 => FALSE
        OBVIOUS
      <4> QED BY <4>1, <4>2
    <3>2. parts \in [1..0 -> Seq(Atoms)]
      BY <2>1, <3>1
    <3> HIDE DEF parts
    <3>3. parts \in Seq(Seq(Atoms))
      BY <3>2
    <3>4. Joined(parts) \in Seq(Atoms)
      BY <3>3, JoinedType
    <3> QED BY <3>4 DEF parts
  <2>3. CASE Len(begins) # 0
    <3>1. Len(begins) - 1 \in Nat
      BY <1>3, <2>3
    <3>2. parts \in [1..Len(begins) - 1 -> Seq(Atoms)]
      BY <2>1
    <3>3. parts \in Seq(Seq(Atoms))
      BY <3>1, <3>2
    <3> HIDE DEF parts
    <3>4. Joined(parts) \in Seq(Atoms)
      BY <3>3, JoinedType
    <3> QED BY <3>4 DEF parts
  <2> QED BY <2>2, <2>3
<1>6. task \in Seq(Atoms)
  <2>1. <<Task>> \in Seq(Atoms)
    BY Constants
  <2>2. ASSUME begins # <<>>
        PROVE TaskOf(list, current) \in Seq(Atoms) /\ Told(list, current, Len(list)) \in Seq(Atoms)
    <3>1. Len(begins) \in 1..Len(begins)
      BY <1>3, <2>2
    <3>2. current \in 1..Len(list)
      BY <1>4, <3>1 DEF Last
    <3> HIDE DEF current
    <3>3. Len(list) \in 0..Len(list)
      BY <1>2
    <3>4. TaskOf(list, current) \in Seq(Atoms)
      BY <1>2, <3>2, TaskOfType
    <3>5. Told(list, current, Len(list)) \in Seq(Atoms)
      BY <1>2, <1>9, <3>2, <3>3, ToldType
    <3> QED BY <3>4, <3>5
  <2> HIDE DEF current
  <2> QED BY <2>1, <2>2
<1> QED BY <1>5, <1>6

LEMMA SummaryAnswerable ==
  ASSUME NEW list, Answerable(list), NEW goal
  PROVE  Answerable(ConversationSummary(list, goal))
<1> DEFINE begins  == InOrder({i \in DOMAIN list : Begins(list[i])}, list)
           current == Last(begins)
           history == Joined([k \in 1..Len(begins) - 1 |->
                        Shown(list[begins[k]]) \o Told(list, begins[k], begins[k + 1] - 1)])
           task    == IF begins = <<>> THEN <<Task>>
                      ELSE <<Task>> \o TaskOf(list, current) \o Told(list, current, Len(list))
<1>1. ConversationSummary(list, goal)
        = IF AtTarget(list, goal) \/ Len(list) <= 2 THEN list ELSE Rebuilt(list, history \o task)
  BY DEF ConversationSummary
<1>2. list \in Seq(Message)
  BY DEF Answerable
<1>3. history \in Seq(Atoms) /\ task \in Seq(Atoms)
  BY <1>2, HistoryType
<1> HIDE DEF history, task
<1>4. history \o task \in Seq(Atoms)
  BY <1>3
<1>5. Answerable(Rebuilt(list, history \o task))
  BY <1>2, <1>4, RebuiltAnswerable DEF Rebuilt
<1> QED BY <1>1, <1>5

-----------------------------------------------------------------------------
(* The requests a list states                                              *)

\* Where a request can stand, what is no request, and what follows one.
Asked(m) == m.role = "user" /\ m.kind \in {"real", "redirect"}
Plain(m) == m.text \in Seq({Other})
Quiet(m) == m.role = "user" => m.kind \in {"repl", "note"}

\* Nothing but requests is numbered, and a redirect has none before it.
Stated(list) ==
  /\ \A i \in 1..Len(list) : Asked(list[i]) \/ (Plain(list[i]) /\ Quiet(list[i]))
  /\ \A i, j \in 1..Len(list) : i < j /\ Asked(list[j]) /\ list[j].kind = "redirect" => ~IsReal(list[i])

Taskless(text) == \A q \in 1..Len(text) : text[q] # Task

\* A message that is request r, and a list whose last request is r.
Asks(m, r) == Asked(m) /\ Len(m.text) >= 1 /\ m.text[1] = r /\ Taskless(m.text)

Asking(list, r) ==
  \E c \in 1..Len(list) : Asks(list[c], r) /\ \A j \in c + 1 .. Len(list) : Quiet(list[j])

\* A text that tells request r, behind the marker of the task if it has one.
Marked(text, r) == \E p \in 1..Len(text) : text[p] = r /\ \A q \in p + 1 .. Len(text) : text[q] # Task

\* What a step may do to the last request, and to all of them.
Holds(a, b) == Stated(b) /\ \A r : Asking(a, r) => Asking(b, r)
Loses(a, b) == ~(Carried(a) \subseteq Carried(b))

LEMMA HoldsSelf == \A a : Stated(a) => Holds(a, a) /\ ~Loses(a, a)
BY DEF Holds, Loses

LEMMA TasklessConcat ==
  ASSUME NEW s \in Seq(Atoms), NEW t \in Seq(Atoms), Taskless(s), t \in Seq({Other}) \/ Taskless(t)
  PROVE  Taskless(s \o t)
<1>1. Taskless(t)
  BY DEF Taskless, Task, Other
<1>2. Len(s) \in Nat /\ Len(t) \in Nat /\ Len(s \o t) = Len(s) + Len(t)
  OBVIOUS
<1>3. ASSUME NEW q \in 1..Len(s \o t) PROVE (s \o t)[q] # Task
  <2>1. CASE q <= Len(s)
    <3>1. (s \o t)[q] = s[q] /\ q \in 1..Len(s)
      BY <1>2, <2>1
    <3> QED BY <3>1 DEF Taskless
  <2>2. CASE q > Len(s)
    <3>1. (s \o t)[q] = t[q - Len(s)] /\ q - Len(s) \in 1..Len(t)
      BY <1>2, <2>2
    <3> QED BY <1>1, <3>1 DEF Taskless
  <2> QED BY <1>2, <2>1, <2>2
<1> QED BY <1>3 DEF Taskless

LEMMA UpToKeeps ==
  ASSUME NEW text \in Seq(Atoms), NEW n \in Nat, n >= 1
  PROVE  /\ text \in Seq({Other}) => UpTo(text, n) \in Seq({Other})
         /\ Len(text) >= 1 => Len(UpTo(text, n)) >= 1 /\ UpTo(text, n)[1] = text[1]
         /\ Taskless(text) => Taskless(UpTo(text, n))
<1> DEFINE k == Smaller(n, Len(text))
<1>1. Len(text) \in Nat /\ k \in 0..Len(text) /\ (Len(text) >= 1 => k >= 1)
  BY Compared
<1>2. UpTo(text, n) = SubSeq(text, 1, k)
  BY DEF UpTo
<1> HIDE DEF k
<1>3. Len(SubSeq(text, 1, k)) = k /\ \A q \in 1..k : SubSeq(text, 1, k)[q] = text[q]
  BY <1>1
<1>4. text \in Seq({Other}) => SubSeq(text, 1, k) \in Seq({Other})
  BY <1>1
<1>5. Len(text) >= 1 => SubSeq(text, 1, k)[1] = text[1]
  BY <1>1, <1>3
<1>6. Taskless(text) => Taskless(SubSeq(text, 1, k))
  BY <1>1, <1>3 DEF Taskless
<1> QED BY <1>1, <1>2, <1>3, <1>4, <1>5, <1>6

LEMMA PruneOrderType ==
  ASSUME NEW list \in Seq(Message), NEW places
  PROVE  Reverse(InOrder(places, list)) \in Seq(1..Len(list))
<1>1. InOrder(places, list) \in Seq(1..Len(list))
  BY InOrderType
<1>2. ASSUME NEW s \in Seq(1..Len(list)) PROVE Reverse(s) \in Seq(1..Len(list))
  <2>1. Len(s) \in Nat /\ \A i \in 1..Len(s) : (Len(s) - i) + 1 \in 1..Len(s)
    OBVIOUS
  <2>2. \A i \in 1..Len(s) : s[(Len(s) - i) + 1] \in 1..Len(list)
    BY <2>1
  <2> QED BY <2>1, <2>2 DEF Reverse
<1> QED BY <1>1, <1>2

LEMMA NumberedAsked ==
  ASSUME NEW list \in Seq(Message), Stated(list), NEW i \in 1..Len(list), NEW n \in Nat, n >= 1,
         Contains(list[i].text, n)
  PROVE  Asked(list[i])
<1> SUFFICES ASSUME Plain(list[i]) PROVE FALSE
  BY DEF Stated
<1>1. PICK q \in 1..Len(list[i].text) : list[i].text[q] = n
  BY DEF Contains
<1>2. list[i].text[q] \in {Other}
  BY DEF Plain
<1> QED BY <1>1, <1>2 DEF Other

\* One message in place of another, none of them a new request.
Altered(m, n) ==
  /\ n.role = m.role /\ n.kind = m.kind
  /\ Plain(m) => Plain(n)
  /\ \A r : Asks(m, r) => Asks(n, r)

LEMMA AlteredSelf == \A m : Altered(m, m)
BY DEF Altered

LEMMA AlteredHolds ==
  ASSUME NEW a, NEW b, Len(b) = Len(a), \A i \in 1..Len(a) : Altered(a[i], b[i]), Stated(a)
  PROVE  Holds(a, b)
<1>1. \A i \in 1..Len(a) : /\ b[i].role = a[i].role /\ b[i].kind = a[i].kind
                           /\ Plain(a[i]) => Plain(b[i])
                           /\ Asked(b[i]) <=> Asked(a[i])
                           /\ Quiet(b[i]) <=> Quiet(a[i])
                           /\ IsReal(b[i]) <=> IsReal(a[i])
  BY DEF Altered, Asked, Quiet, IsReal
<1>2. \A i \in 1..Len(a) : Asked(b[i]) \/ (Plain(b[i]) /\ Quiet(b[i]))
  BY <1>1 DEF Stated
<1>3. \A i, j \in 1..Len(a) : i < j /\ Asked(b[j]) /\ b[j].kind = "redirect" => ~IsReal(b[i])
  BY <1>1 DEF Stated
<1>4. ASSUME NEW r, Asking(a, r) PROVE Asking(b, r)
  <2>1. PICK c \in 1..Len(a) : Asks(a[c], r) /\ \A j \in c + 1 .. Len(a) : Quiet(a[j])
    BY <1>4 DEF Asking
  <2>2. Asks(b[c], r)
    BY <2>1 DEF Altered
  <2>3. \A j \in c + 1 .. Len(a) : j \in 1..Len(a)
    BY <2>1
  <2>4. \A j \in c + 1 .. Len(a) : Quiet(b[j])
    BY <1>1, <2>1, <2>3
  <2> QED BY <2>2, <2>4 DEF Asking
<1> QED BY <1>2, <1>3, <1>4 DEF Holds, Stated

LEMMA PruneImagesHolds ==
  ASSUME NEW list \in Seq(Message), NEW goal, Stated(list)
  PROVE  Holds(list, PruneImages(list, goal))
<1> DEFINE last == Smaller(SplitPoint(list) + 1, Len(list) - 1)
           many == {i \in 1..last : list[i].role = "user" /\ list[i].images > 1}
           new == [i \in DOMAIN list |->
                     [list[i] EXCEPT !.images = 1, !.text = @ \o Filler(list[i].images - 1)]]
           order == Reverse(InOrder(many, list))
           end == PruneImages(list, goal)
<1>1. ASSUME NEW i \in 1..Len(list) PROVE new[i] \in Message /\ Altered(list[i], new[i])
  <2> DEFINE text == list[i].text
             more == Filler(list[i].images - 1)
  <2>1. list[i] \in Message /\ i \in DOMAIN list
    OBVIOUS
  <2>2. list[i].images - 1 \in Int /\ text \in Seq(Atoms)
    BY <2>1, Parts
  <2>3. more \in Seq(Atoms) /\ more \in Seq({Other})
    BY <2>2, FillerType
  <2>4. \A n \in Nat, t \in Seq(Atoms) :
          /\ [list[i] EXCEPT !.images = n, !.text = t] \in Message
          /\ [list[i] EXCEPT !.images = n, !.text = t].role = list[i].role
          /\ [list[i] EXCEPT !.images = n, !.text = t].kind = list[i].kind
          /\ [list[i] EXCEPT !.images = n, !.text = t].text = t
    BY <2>1, Changes
  <2>5. new[i] = [list[i] EXCEPT !.images = 1, !.text = text \o more]
    BY <2>1
  <2> HIDE DEF text, more
  <2>6. text \o more \in Seq(Atoms)
    BY <2>2, <2>3
  <2>7. /\ new[i] \in Message /\ new[i].role = list[i].role /\ new[i].kind = list[i].kind
        /\ new[i].text = text \o more
    <3>1. \A t \in Seq(Atoms) :
            /\ [list[i] EXCEPT !.images = 1, !.text = t] \in Message
            /\ [list[i] EXCEPT !.images = 1, !.text = t].role = list[i].role
            /\ [list[i] EXCEPT !.images = 1, !.text = t].kind = list[i].kind
            /\ [list[i] EXCEPT !.images = 1, !.text = t].text = t
      <4>1. 1 \in Nat
        OBVIOUS
      <4> QED BY <2>4, <4>1
    <3> HIDE DEF new
    <3> QED BY <2>5, <2>6, <3>1
  <2> HIDE DEF new
  <2>8. Plain(list[i]) => Plain(new[i])
    BY <2>3, <2>7 DEF Plain, text
  <2>9. ASSUME NEW r, Asks(list[i], r) PROVE Asks(new[i], r)
    <3>1. Len(text) >= 1 /\ text[1] = r /\ Taskless(text)
      BY <2>9 DEF Asks, text
    <3>2. Len(text \o more) >= 1 /\ (text \o more)[1] = r
      BY <2>2, <2>3, <3>1
    <3>3. Taskless(text \o more)
      BY <2>2, <2>3, <3>1, TasklessConcat
    <3> QED BY <2>7, <2>9, <3>2, <3>3 DEF Asks, Asked
  <2> QED BY <2>7, <2>8, <2>9 DEF Altered
<1>2. order \in Seq(1..Len(list))
  BY PruneOrderType
<1>3. end = UntilTarget(list, order, new, DOMAIN list, goal)
  BY DEF PruneImages
<1> HIDE DEF new, order, end
<1>4. Each(list, order, new, end)
  BY <1>1, <1>2, <1>3, UntilTargetEach
<1>5. Len(end) = Len(list) /\ \A i \in 1..Len(list) : Altered(list[i], end[i])
  BY <1>1, <1>4, AlteredSelf DEF Each
<1> QED BY <1>5, AlteredHolds DEF end

LEMMA OversizeHolds ==
  ASSUME NEW list \in Seq(Message), NEW goal, Stated(list)
  PROVE  Holds(list, OversizeUserPrune(list, goal))
<1> DEFINE long == {i \in DOMAIN list : list[i].role = "user" /\ Len(list[i].text) > MaxUser}
           new == [i \in DOMAIN list |-> [list[i] EXCEPT !.text = UpTo(@, MaxUser) \o <<Other>>]]
           order == InOrder(long, list)
           looks == {i \in DOMAIN list : list[i].images = 0}
           end == OversizeUserPrune(list, goal)
<1>1. ASSUME NEW i \in 1..Len(list) PROVE new[i] \in Message /\ Altered(list[i], new[i])
  <2> DEFINE text == list[i].text
             part == UpTo(text, MaxUser)
  <2>1. list[i] \in Message /\ i \in DOMAIN list
    OBVIOUS
  <2>2. text \in Seq(Atoms) /\ <<Other>> \in Seq(Atoms) /\ <<Other>> \in Seq({Other})
    BY <2>1, Parts, Constants
  <2>3. \A t \in Seq(Atoms) :
          /\ [list[i] EXCEPT !.text = t] \in Message
          /\ [list[i] EXCEPT !.text = t].role = list[i].role
          /\ [list[i] EXCEPT !.text = t].kind = list[i].kind
          /\ [list[i] EXCEPT !.text = t].text = t
    BY <2>1, Changes
  <2>4. new[i] = [list[i] EXCEPT !.text = part \o <<Other>>]
    BY <2>1
  <2> HIDE DEF text
  <2>5. part \in Seq(Atoms)
    BY <2>2, UpToType, Constants
  <2>6. /\ text \in Seq({Other}) => part \in Seq({Other})
        /\ Len(text) >= 1 => Len(part) >= 1 /\ part[1] = text[1]
        /\ Taskless(text) => Taskless(part)
    BY <2>2, UpToKeeps, Constants
  <2> HIDE DEF part
  <2>7. part \o <<Other>> \in Seq(Atoms)
    BY <2>2, <2>5
  <2>8. /\ new[i] \in Message /\ new[i].role = list[i].role /\ new[i].kind = list[i].kind
        /\ new[i].text = part \o <<Other>>
    BY <2>3, <2>4, <2>7
  <2> HIDE DEF new
  <2>9. Plain(list[i]) => Plain(new[i])
    BY <2>2, <2>6, <2>8 DEF Plain, text
  <2>10. ASSUME NEW r, Asks(list[i], r) PROVE Asks(new[i], r)
    <3>1. Len(text) >= 1 /\ text[1] = r /\ Taskless(text)
      BY <2>10 DEF Asks, text
    <3>2. Len(part) >= 1 /\ part[1] = r /\ Taskless(part)
      BY <2>6, <3>1
    <3>3. Len(part \o <<Other>>) >= 1 /\ (part \o <<Other>>)[1] = r
      BY <2>2, <2>5, <3>2
    <3>4. Taskless(part \o <<Other>>)
      BY <2>2, <2>5, <3>2, TasklessConcat
    <3> QED BY <2>8, <2>10, <3>3, <3>4 DEF Asks, Asked
  <2> QED BY <2>8, <2>9, <2>10 DEF Altered
<1>2. order \in Seq(1..Len(list))
  BY InOrderType
<1>3. end = UntilTarget(list, order, new, looks, goal)
  BY DEF OversizeUserPrune
<1> HIDE DEF new, order, looks, end
<1>4. Each(list, order, new, end)
  BY <1>1, <1>2, <1>3, UntilTargetEach
<1>5. Len(end) = Len(list) /\ \A i \in 1..Len(list) : Altered(list[i], end[i])
  BY <1>1, <1>4, AlteredSelf DEF Each
<1> QED BY <1>5, AlteredHolds DEF end

\* Reasoning is no text, and only replies have it.
LEMMA DropReasoningHolds ==
  ASSUME NEW list \in Seq(Message), list # <<>>, Last(list).role = "user", NEW goal, Stated(list)
  PROVE  /\ Holds(list, DropReasoning(list, goal)) /\ ~Loses(list, DropReasoning(list, goal))
         /\ Last(DropReasoning(list, goal)) = Last(list)
<1> DEFINE some == {i \in 1..SplitPoint(list) : list[i].role = "assistant" /\ list[i].reasoning > 0}
           new == [i \in DOMAIN list |-> [list[i] EXCEPT !.reasoning = 0]]
           order == InOrder(some, list)
           end == DropReasoning(list, goal)
<1>1. ASSUME NEW i \in 1..Len(list)
      PROVE new[i] \in Message /\ Altered(list[i], new[i]) /\ new[i].text = list[i].text
  <2>1. list[i] \in Message /\ i \in DOMAIN list
    OBVIOUS
  <2>2. new[i] = [list[i] EXCEPT !.reasoning = 0]
    BY <2>1
  <2> HIDE DEF new
  <2>3. /\ new[i] \in Message /\ new[i].role = list[i].role /\ new[i].kind = list[i].kind
        /\ new[i].text = list[i].text
    <3>1. \A n \in Nat :
            /\ [list[i] EXCEPT !.reasoning = n] \in Message
            /\ [list[i] EXCEPT !.reasoning = n].role = list[i].role
            /\ [list[i] EXCEPT !.reasoning = n].kind = list[i].kind
            /\ [list[i] EXCEPT !.reasoning = n].text = list[i].text
      BY <2>1, Changes
    <3>2. 0 \in Nat
      OBVIOUS
    <3> QED BY <2>2, <3>1, <3>2
  <2> QED BY <2>3 DEF Altered, Plain, Asks, Asked
<1>2. order \in Seq(1..Len(list)) /\ Picks(order, some, Len(list))
  BY InOrderType, InOrderPicks
<1>3. end = UntilTarget(list, order, new, DOMAIN list, goal)
  BY DEF DropReasoning
<1>4. \A k \in 1..Len(order) : list[order[k]].role = "assistant"
  BY <1>2 DEF Picks
<1> HIDE DEF new, order, end
<1>5. Each(list, order, new, end)
  BY <1>1, <1>2, <1>3, UntilTargetEach
<1>6. Len(end) = Len(list) /\ \A i \in 1..Len(list) : Altered(list[i], end[i])
  BY <1>1, <1>5, AlteredSelf DEF Each
<1>7. DOMAIN end = DOMAIN list /\ \A i \in 1..Len(list) : end[i].text = list[i].text
  BY <1>1, <1>5 DEF Each
<1>8. ~Loses(list, end)
  BY <1>7 DEF Loses, Carried
<1>9. Last(end) = Last(list)
  <2>1. Len(list) \in 1..Len(list) /\ list[Len(list)].role = "user"
    BY DEF Last
  <2>2. end[Len(list)] = list[Len(list)]
    BY <1>4, <1>5, <2>1 DEF Each
  <2> QED BY <1>6, <2>2 DEF Last
<1> QED BY <1>6, <1>8, <1>9, AlteredHolds DEF end

\* Messages that go take no request with them when the requests stay and what
\* stays in place of another is no user's.
Like(m, n) ==
  /\ m.role = "user" => n = m
  /\ m.role # "user" => n.role # "user" /\ (Plain(m) => Plain(n))

LEMMA ThinnedHolds ==
  ASSUME NEW a \in Seq(Message), NEW b, NEW h, NEW places, Picks(h, places, Len(a)),
         Len(b) = Len(h), DOMAIN b = 1..Len(b),
         \A k \in 1..Len(h) : Like(a[h[k]], b[k]),
         \A i \in 1..Len(a) : Asked(a[i]) => i \in places, Stated(a)
  PROVE  Holds(a, b) /\ ~Loses(a, b)
<1>1. /\ Len(a) \in Nat /\ Len(h) \in Nat
      /\ \A k \in 1..Len(h) : h[k] \in 1..Len(a)
      /\ \A k, l \in 1..Len(h) : k < l => h[k] < h[l]
      /\ \A i \in 1..Len(a) : i \in places => \E k \in 1..Len(h) : h[k] = i
  BY DEF Picks
<1>2. \A k \in 1..Len(h) : a[h[k]].role = "user" => b[k] = a[h[k]]
  BY DEF Like
<1>3. \A k \in 1..Len(h) : b[k].role = "user" => b[k] = a[h[k]]
  BY DEF Like
<1>4. ASSUME NEW k \in 1..Len(h), ~Asked(b[k]) PROVE Plain(b[k]) /\ Quiet(b[k])
  <2>1. CASE a[h[k]].role = "user"
    <3>1. b[k] = a[h[k]] /\ h[k] \in 1..Len(a)
      BY <1>1, <1>2, <2>1
    <3>2. Plain(a[h[k]]) /\ Quiet(a[h[k]])
      BY <1>4, <3>1 DEF Stated
    <3> QED BY <3>1, <3>2
  <2>2. CASE a[h[k]].role # "user"
    <3>1. h[k] \in 1..Len(a) /\ ~Asked(a[h[k]])
      BY <1>1, <2>2 DEF Asked
    <3>2. Plain(a[h[k]])
      BY <3>1 DEF Stated
    <3> QED BY <2>2, <3>2 DEF Like, Quiet
  <2> QED BY <2>1, <2>2
<1>5. ASSUME NEW k \in 1..Len(h), NEW l \in 1..Len(h), k < l,
             Asked(b[l]), b[l].kind = "redirect", IsReal(b[k])
      PROVE FALSE
  <2>1. b[l] = a[h[l]] /\ b[k] = a[h[k]]
    BY <1>3, <1>5 DEF Asked, IsReal
  <2>2. h[k] < h[l] /\ h[k] \in 1..Len(a) /\ h[l] \in 1..Len(a)
    BY <1>1, <1>5
  <2> QED BY <1>5, <2>1, <2>2 DEF Stated
<1>6. ASSUME NEW r, Asking(a, r) PROVE Asking(b, r)
  <2>1. PICK c \in 1..Len(a) : Asks(a[c], r) /\ \A j \in c + 1 .. Len(a) : Quiet(a[j])
    BY <1>6 DEF Asking
  <2>2. PICK k \in 1..Len(h) : h[k] = c
    BY <1>1, <2>1 DEF Asks
  <2>3. Asks(b[k], r)
    BY <1>2, <2>1, <2>2 DEF Asks, Asked
  <2>4. ASSUME NEW l \in k + 1 .. Len(b) PROVE Quiet(b[l])
    <3>1. l \in 1..Len(h) /\ k < l
      BY <1>1
    <3>2. h[l] \in c + 1 .. Len(a)
      BY <1>1, <2>2, <3>1
    <3>3. Quiet(a[h[l]])
      BY <2>1, <3>2
    <3> QED BY <1>3, <3>1, <3>3 DEF Quiet
  <2> QED BY <2>3, <2>4 DEF Asking
<1>7. ASSUME NEW n \in Carried(a) PROVE n \in Carried(b)
  <2>1. n \in 1..MaxRequests /\ n \in Nat /\ n >= 1
    BY <1>7, Constants DEF Carried
  <2>2. PICK i \in 1..Len(a) : Contains(a[i].text, n)
    BY <1>7 DEF Carried
  <2>3. Asked(a[i])
    BY <2>1, <2>2, NumberedAsked
  <2>4. PICK k \in 1..Len(h) : h[k] = i
    BY <1>1, <2>3
  <2>5. b[k] = a[i]
    BY <1>2, <2>3, <2>4 DEF Asked
  <2>6. k \in DOMAIN b
    OBVIOUS
  <2> QED BY <2>1, <2>2, <2>5, <2>6 DEF Carried
<1>8. Stated(b)
  BY <1>4, <1>5 DEF Stated
<1> QED BY <1>6, <1>7, <1>8 DEF Holds, Loses

LEMMA CollapseHolds ==
  ASSUME NEW list \in Seq(Message), list # <<>>, Last(list).role = "user",
         NEW limit \in 0..Len(list), Stated(list)
  PROVE  /\ Holds(list, CollapseTurns(list, limit)) /\ ~Loses(list, CollapseTurns(list, limit))
         /\ Last(CollapseTurns(list, limit)) = Last(list)
<1> DEFINE turns  == SummarizedTurns(list, limit)
           places == {i \in DOMAIN list : \A turn \in turns : ~(turn[1] < i /\ i < turn[2])}
           ends   == {turn[2] : turn \in turns}
           told   == [Said("assistant", "plain", <<Other>>) EXCEPT !.summary = TRUE]
           new    == [i \in DOMAIN list |-> IF i \in ends THEN told ELSE list[i]]
<1>0. Len(list) \in Nat /\ Len(list) >= 1 /\ limit \in Nat /\ limit <= Len(list)
      /\ list[Len(list)].role = "user"
  BY DEF Last
<1>1. told \in Message /\ told.role = "assistant" /\ told.text = <<Other>>
  <2> DEFINE said == Said("assistant", "plain", <<Other>>)
  <2>1. <<Other>> \in Seq(Atoms)
    BY Constants
  <2>2. said \in Message /\ said.role = "assistant" /\ said.text = <<Other>>
    BY <2>1, SaidType
  <2> HIDE DEF said
  <2>3. [said EXCEPT !.summary = TRUE] \in Message /\ [said EXCEPT !.summary = TRUE].role = said.role
        /\ [said EXCEPT !.summary = TRUE].text = said.text
    BY <2>2, Changes
  <2> QED BY <2>2, <2>3 DEF said
<1>2. \A i \in 1..Len(list) : i \in ends => list[i].role = "assistant"
  <2> SUFFICES ASSUME NEW turn \in turns PROVE list[turn[2]].role = "assistant"
    OBVIOUS
  <2>1. PICK first \in turn[1] + 1 .. turn[2] : \A k \in first..turn[2] : Summarised(list[k])
    BY <1>0, TurnParts
  <2>2. turn[2] \in first..turn[2]
    BY <1>0, <2>1, TurnParts
  <2> QED BY <2>1, <2>2 DEF Summarised
<1> HIDE DEF told, ends
<1>3. ASSUME NEW i \in 1..Len(list) PROVE new[i] \in Message /\ Like(list[i], new[i])
  <2>1. list[i] \in Message /\ new[i] = IF i \in ends THEN told ELSE list[i]
    OBVIOUS
  <2>2. CASE i \in ends
    <3>1. new[i] = told /\ list[i].role = "assistant"
      BY <1>2, <2>1, <2>2
    <3>2. Plain(told)
      BY <1>1 DEF Plain
    <3> HIDE DEF new
    <3> QED BY <1>1, <3>1, <3>2 DEF Like
  <2>3. CASE i \notin ends
    <3>1. new[i] = list[i]
      BY <2>1, <2>3
    <3> HIDE DEF new
    <3> QED BY <2>1, <3>1 DEF Like
  <2> QED BY <2>2, <2>3
<1>4. new \in Seq(Message) /\ Len(new) = Len(list)
  <2>1. DOMAIN new = 1..Len(list) /\ new = [i \in DOMAIN new |-> new[i]]
    OBVIOUS
  <2> HIDE DEF new
  <2>2. new \in [1..Len(list) -> Message]
    BY <1>3, <2>1
  <2> QED BY <1>0, <2>2
<1>5. new[Len(list)] = list[Len(list)]
  <2>1. Len(list) \in 1..Len(list)
    BY <1>0
  <2>2. Like(list[Len(list)], new[Len(list)])
    BY <1>3, <2>1
  <2> HIDE DEF new
  <2> QED BY <1>0, <2>2 DEF Like
<1> HIDE DEF new
<1>6. ASSUME NEW i \in 1..Len(list), Asked(list[i]) PROVE i \in places
  <2> SUFFICES ASSUME NEW turn \in turns, turn[1] < i, i < turn[2] PROVE FALSE
    OBVIOUS
  <2>1. /\ turn[1] \in 1..limit /\ turn[2] \in 1..limit /\ IsReal(list[turn[1]])
        /\ NoRealIn(list, turn[1] + 1, turn[2])
    BY <1>0, TurnParts
  <2>2. i \in turn[1] + 1 .. turn[2] /\ turn[1] \in 1..Len(list)
    BY <1>0, <2>1
  <2>3. ~IsReal(list[i])
    BY <2>1, <2>2 DEF NoRealIn
  <2>4. list[i].kind = "redirect"
    BY <1>6, <2>3 DEF Asked, IsReal
  <2> QED BY <1>6, <2>1, <2>2, <2>4 DEF Stated
<1>7. Len(list) \in places
  <2>1. Len(list) \in DOMAIN list
    BY <1>0
  <2>2. \A turn \in turns : ~(Len(list) < turn[2])
    BY <1>0, TurnParts
  <2> QED BY <2>1, <2>2
<1> HIDE DEF places
<1> DEFINE b == KeptAt(places, new)
<1>8. PICK h : /\ Picks(h, places, Len(list)) /\ Len(b) = Len(h)
               /\ \A k \in 1..Len(h) : b[k] = new[h[k]]
  BY <1>4, KeptPicks
<1>9. b \in Seq(Message)
  BY <1>4, KeptAtType
<1> HIDE DEF b
<1>10. \A k \in 1..Len(h) : h[k] \in 1..Len(list)
  BY <1>8 DEF Picks
<1>11. \A k \in 1..Len(h) : Like(list[h[k]], b[k])
  BY <1>3, <1>8, <1>10
<1>12. Len(b) = Len(h) /\ DOMAIN b = 1..Len(b)
  BY <1>8, <1>9
<1>13. Holds(list, b) /\ ~Loses(list, b)
  BY <1>6, <1>8, <1>11, <1>12, ThinnedHolds
<1>14. Last(b) = Last(list)
  <2>1. PICK k \in 1..Len(h) : h[k] = Len(list)
    BY <1>0, <1>7, <1>8 DEF Picks
  <2>2. Len(h) \in Nat
    BY <1>8 DEF Picks
  <2>3. k = Len(h)
    <3> SUFFICES ASSUME k < Len(h) PROVE FALSE
      BY <2>2
    <3>1. Len(h) \in 1..Len(h)
      BY <2>2
    <3>2. h[k] < h[Len(h)] /\ h[Len(h)] \in 1..Len(list)
      BY <1>8, <1>10, <3>1 DEF Picks
    <3> QED BY <1>0, <2>1, <3>2
  <2>4. b[Len(b)] = new[Len(list)]
    BY <1>8, <2>1, <2>3
  <2> QED BY <1>5, <2>4 DEF Last
<1>15. CollapseTurns(list, limit) = IF Len(list) < 3 THEN list ELSE b
  BY DEF CollapseTurns, places, new, ends, told, b
<1> QED BY <1>13, <1>14, <1>15, HoldsSelf

LEMMA RedactedHolds ==
  ASSUME NEW list \in Seq(Message), list # <<>>, Stated(list), NEW limit \in 0..Len(list),
         NEW block \in Blocks(list, limit)
  PROVE  Holds(list, Redacted(list, block)) /\ ~Loses(list, Redacted(list, block))
         /\ Last(Redacted(list, block)) = Last(list)
<1> DEFINE a == block[1]
           b == block[2]
           d == Redacted(list, block)
           n == Len(list)
           places == 1..a \cup b..n
           h == [k \in 1..a + (n - b + 1) |-> IF k <= a THEN k ELSE b + (k - a) - 1]
<1>1. /\ a \in 1..n /\ b \in 1..n /\ a + 1 < b /\ IsReal(list[a])
      /\ \A i \in a + 1 .. b : ~IsReal(list[i])
  BY DEF Blocks
<1> HIDE DEF a, b
<1>2. n \in Nat
  OBVIOUS
<1>3. d = SubSeq(list, 1, a) \o SubSeq(list, b, n)
  BY DEF Redacted, a, b
<1>4. /\ SubSeq(list, 1, a) \in Seq(Message) /\ Len(SubSeq(list, 1, a)) = a
      /\ \A i \in 1..a : SubSeq(list, 1, a)[i] = list[i]
  BY <1>1
<1>5. /\ SubSeq(list, b, n) \in Seq(Message) /\ Len(SubSeq(list, b, n)) = n - b + 1
      /\ \A i \in 1..n - b + 1 : SubSeq(list, b, n)[i] = list[b + i - 1]
  BY <1>1
<1>6. d \in Seq(Message) /\ Len(d) = a + (n - b + 1)
  BY <1>1, <1>3, <1>4, <1>5
<1>7. \A i \in 1..a : d[i] = list[i]
  BY <1>1, <1>3, <1>4, <1>5
<1>8. \A i \in a + 1 .. Len(d) : d[i] = list[b + (i - a) - 1]
  <2> SUFFICES ASSUME NEW i \in a + 1 .. Len(d) PROVE d[i] = list[b + (i - a) - 1]
    OBVIOUS
  <2>1. i - a \in 1..n - b + 1
    BY <1>1, <1>2, <1>6
  <2>2. d[i] = SubSeq(list, b, n)[i - a]
    BY <1>1, <1>3, <1>4, <1>5, <1>6
  <2> QED BY <1>5, <2>1, <2>2
<1> HIDE DEF d
<1>9. /\ \A k \in 1..Len(d) : h[k] = IF k <= a THEN k ELSE b + (k - a) - 1
      /\ DOMAIN h = 1..Len(d)
  BY <1>6
<1>10. h \in Seq(1..n) /\ Len(h) = Len(d)
  <2>1. \A k \in 1..Len(d) : h[k] \in 1..n
    BY <1>1, <1>2, <1>6, <1>9
  <2>2. h = [k \in 1..Len(d) |-> h[k]]
    BY <1>6
  <2> HIDE DEF h
  <2>3. h \in [1..Len(d) -> 1..n] /\ Len(d) \in Nat
    BY <1>1, <1>2, <1>6, <2>1, <2>2
  <2> QED BY <2>3
<1> HIDE DEF h
<1>11. Picks(h, places, n)
  <2>1. ASSUME NEW k \in 1..Len(h), NEW l \in 1..Len(h), k < l PROVE h[k] < h[l]
    <3>1. k \in 1..Len(d) /\ l \in 1..Len(d)
      BY <1>10
    <3>2. /\ h[k] = IF k <= a THEN k ELSE b + (k - a) - 1
          /\ h[l] = IF l <= a THEN l ELSE b + (l - a) - 1
      BY <1>9, <3>1
    <3>3. a \in Int /\ b \in Int /\ a < b /\ k \in Int /\ l \in Int
      BY <1>1, <1>2, <3>1
    <3>4. CASE l <= a
      BY <2>1, <3>2, <3>3, <3>4
    <3>5. CASE l > a
      <4>1. h[l] = b + (l - a) - 1
        BY <3>2, <3>3, <3>5
      <4>2. CASE k <= a
        BY <3>2, <3>3, <3>5, <4>1, <4>2
      <4>3. CASE k > a
        <5>1. h[k] = b + (k - a) - 1
          BY <3>2, <3>3, <4>3
        <5> QED BY <2>1, <3>3, <4>1, <5>1
      <4> QED BY <3>3, <4>2, <4>3
    <3> QED BY <3>3, <3>4, <3>5
  <2>2. \A k \in 1..Len(h) : h[k] \in places
    BY <1>1, <1>2, <1>6, <1>9, <1>10
  <2>3. ASSUME NEW i \in 1..n, i \in places PROVE \E k \in 1..Len(h) : h[k] = i
    <3>1. CASE i <= a
      <4>1. i \in 1..Len(h) /\ h[i] = i
        BY <1>1, <1>2, <1>6, <1>9, <1>10, <3>1
      <4> QED BY <4>1
    <3>2. CASE i >= b
      <4>1. (i - b) + a + 1 \in 1..Len(h) /\ h[(i - b) + a + 1] = i
        BY <1>1, <1>2, <1>6, <1>9, <1>10, <3>2
      <4> QED BY <4>1
    <3>3. i <= a \/ i >= b
      BY <1>1, <1>2, <2>3
    <3> QED BY <3>1, <3>2, <3>3
  <2> QED BY <1>10, <2>1, <2>2, <2>3 DEF Picks
<1>12. \A k \in 1..Len(h) : d[k] = list[h[k]] /\ h[k] \in 1..n
  <2> SUFFICES ASSUME NEW k \in 1..Len(h) PROVE d[k] = list[h[k]] /\ h[k] \in 1..n
    OBVIOUS
  <2>1. CASE k <= a
    <3>1. k \in 1..a /\ h[k] = k
      BY <1>1, <1>9, <1>10, <2>1
    <3> QED BY <1>7, <1>10, <3>1
  <2>2. CASE k > a
    <3>1. k \in a + 1 .. Len(d) /\ h[k] = b + (k - a) - 1
      BY <1>1, <1>9, <1>10, <2>2
    <3> QED BY <1>8, <1>10, <3>1
  <2> QED BY <1>1, <1>10, <2>1, <2>2
<1>13. \A k \in 1..Len(h) : Like(list[h[k]], d[k])
  BY <1>12 DEF Like
<1>14. ASSUME NEW i \in 1..n, Asked(list[i]) PROVE i \in places
  <2> SUFFICES ASSUME a < i, i < b PROVE FALSE
    BY <1>1, <1>2
  <2>1. i \in a + 1 .. b
    BY <1>1
  <2>2. list[i].kind = "redirect"
    BY <1>1, <1>14, <2>1 DEF Asked, IsReal
  <2> QED BY <1>1, <1>14, <2>2 DEF Stated
<1>15. DOMAIN d = 1..Len(d)
  BY <1>6
<1> HIDE DEF places
<1>16. Holds(list, d) /\ ~Loses(list, d)
  BY <1>10, <1>11, <1>13, <1>14, <1>15, ThinnedHolds
<1>17. Last(d) = Last(list)
  <2>1. Len(d) \in a + 1 .. Len(d) /\ b + (Len(d) - a) - 1 = n
    BY <1>1, <1>2, <1>6
  <2>2. d[Len(d)] = list[n]
    BY <1>8, <2>1
  <2> QED BY <2>2 DEF Last
<1> QED BY <1>16, <1>17 DEF d

LEMMA RedactFirstHolds ==
  ASSUME NEW list \in Seq(Message), list # <<>>, Stated(list), NEW useBoundary, NEW goal
  PROVE  /\ Holds(list, RedactFirst(list, useBoundary, goal))
         /\ ~Loses(list, RedactFirst(list, useBoundary, goal))
         /\ Last(RedactFirst(list, useBoundary, goal)) = Last(list)
BY RedactFirstCases, HoldsSelf, RedactedHolds

LEMMA RedactBlocksHolds ==
  ASSUME NEW list \in Seq(Message), list # <<>>, Alternates(list), Stated(list),
         NEW useBoundary, NEW goal
  PROVE  /\ Holds(list, RedactBlocks(list, useBoundary, goal))
         /\ ~Loses(list, RedactBlocks(list, useBoundary, goal))
         /\ Last(RedactBlocks(list, useBoundary, goal)) = Last(list)
<1>0. Len(list) \in Nat /\ Len(list) <= Len(list)
  OBVIOUS
<1>1. \E f : IsRedacting(f, list, useBoundary, goal, Len(list))
  BY <1>0, RedactingExists
<1>2. RedactBlocks(list, useBoundary, goal)
        = (CHOOSE f : IsRedacting(f, list, useBoundary, goal, Len(list)))[Len(list)]
  BY DEF RedactBlocks, IsRedacting
<1>3. PICK f : /\ IsRedacting(f, list, useBoundary, goal, Len(list))
               /\ RedactBlocks(list, useBoundary, goal) = f[Len(list)]
  BY <1>1, <1>2
<1>4. f[0] = list
  BY <1>3 DEF IsRedacting
<1>5. \A k \in 1..Len(list) : f[k] = RedactFirst(f[k - 1], useBoundary, goal)
  BY <1>3 DEF IsRedacting
<1> DEFINE Good(b) == Keeps(list, b) /\ Holds(list, b) /\ ~Loses(list, b) /\ Last(b) = Last(list)
           S == {k \in Nat : k <= Len(list) => Good(f[k])}
<1>6. 0 \in S
  BY <1>4, KeepsSelf, HoldsSelf
<1>7. ASSUME NEW k \in Nat, k \in S PROVE k + 1 \in S
  <2> SUFFICES ASSUME k + 1 <= Len(list) PROVE Good(f[k + 1])
    OBVIOUS
  <2>1. k + 1 \in 1..Len(list) /\ (k + 1) - 1 = k /\ k <= Len(list)
    BY <1>0
  <2>2. Good(f[k])
    BY <1>7, <2>1
  <2>3. f[k + 1] = RedactFirst(f[k], useBoundary, goal)
    BY <1>5, <2>1
  <2>4. f[k] \in Seq(Message) /\ f[k] # <<>> /\ Alternates(f[k]) /\ Stated(f[k])
    BY <2>2 DEF Keeps, Holds
  <2>5. Keeps(f[k], f[k + 1])
    BY <2>3, <2>4, RedactFirstKeeps
  <2>6. Holds(f[k], f[k + 1]) /\ ~Loses(f[k], f[k + 1]) /\ Last(f[k + 1]) = Last(f[k])
    BY <2>3, <2>4, RedactFirstHolds
  <2>7. Keeps(list, f[k + 1])
    BY <2>2, <2>5 DEF Keeps
  <2>8. Holds(list, f[k + 1])
    BY <2>2, <2>6 DEF Holds
  <2>9. ~Loses(list, f[k + 1])
    BY <2>2, <2>6 DEF Loses
  <2> QED BY <2>2, <2>6, <2>7, <2>8, <2>9
<1> HIDE DEF S
<1>8. \A k \in Nat : k \in S
  BY <1>6, <1>7, EveryNumber
<1>9. Good(f[Len(list)])
  BY <1>0, <1>8 DEF S
<1> QED BY <1>3, <1>9

\* What is rebuilt: the system prompt and one request.
LEMMA RebuiltStated ==
  ASSUME NEW list \in Seq(Message), Stated(list), NEW text \in Seq(Atoms),
         NEW kind \in {"real", "redirect"}
  PROVE  /\ Stated(SystemOf(list) \o <<Said("user", kind, text)>>)
         /\ Len(SystemOf(list) \o <<Said("user", kind, text)>>) <= 2
<1> DEFINE m == Said("user", kind, text)
           d == SystemOf(list) \o <<m>>
<1>1. m \in Message /\ m.role = "user" /\ m.kind = kind
  BY SaidType
<1>2. Asked(m)
  BY <1>1 DEF Asked
<1> HIDE DEF m
<1>3. CASE list # <<>> /\ list[1].role = "system"
  <2>1. list[1] \in Message /\ 1 \in 1..Len(list)
    BY <1>3
  <2>2. SystemOf(list) = <<list[1]>>
    BY <1>3 DEF SystemOf
  <2>3. Len(d) = 2 /\ d[1] = list[1] /\ d[2] = m
    BY <1>1, <2>1, <2>2
  <2>4. ~Asked(list[1]) /\ ~IsReal(list[1])
    BY <1>3 DEF Asked, IsReal
  <2>5. Plain(list[1]) /\ Quiet(list[1])
    BY <2>1, <2>4 DEF Stated
  <2> HIDE DEF d
  <2>6. 1..Len(d) = {1, 2}
    BY <2>3
  <2>7. Stated(d)
    BY <1>2, <2>3, <2>4, <2>5, <2>6 DEF Stated
  <2> QED BY <2>3, <2>7 DEF d, m
<1>4. CASE ~(list # <<>> /\ list[1].role = "system")
  <2>1. SystemOf(list) = <<>>
    BY <1>4 DEF SystemOf
  <2>2. Len(d) = 1 /\ d[1] = m
    BY <1>1, <2>1
  <2> HIDE DEF d
  <2>3. 1..Len(d) = {1}
    BY <2>2
  <2>4. Stated(d)
    BY <1>2, <2>2, <2>3 DEF Stated
  <2> QED BY <2>2, <2>4 DEF d, m
<1> QED BY <1>3, <1>4

\* The last request of a list is found from behind.
LEMMA LastReal ==
  ASSUME NEW list \in Seq(Message), Stated(list), NEW r, NEW c \in 1..Len(list),
         Asks(list[c], r), \A j \in c + 1 .. Len(list) : Quiet(list[j]),
         NEW I, I = {i \in 1..Len(list) : IsReal(list[i])}, I # {}
  PROVE  Max(I) = c
<1>1. Len(list) \in Nat /\ I \in SUBSET (1..Len(list))
  OBVIOUS
<1>2. Max(I) \in I /\ \A i \in I : Max(I) >= i
  BY <1>1, LargestPosition
<1>3. \A i \in I : i <= c
  <2> SUFFICES ASSUME NEW i \in I, i > c PROVE FALSE
    BY <1>1
  <2>1. i \in c + 1 .. Len(list) /\ IsReal(list[i])
    BY <1>1
  <2>2. Quiet(list[i])
    BY <2>1
  <2> QED BY <2>1, <2>2 DEF Quiet, IsReal
<1>4. c \in I
  <2> SUFFICES ASSUME c \notin I PROVE FALSE
    OBVIOUS
  <2>1. Asked(list[c]) /\ list[c].kind = "redirect"
    BY DEF Asks, Asked, IsReal
  <2>2. Max(I) < c /\ IsReal(list[Max(I)]) /\ Max(I) \in 1..Len(list)
    BY <1>1, <1>2, <1>3
  <2> QED BY <2>1, <2>2 DEF Stated
<1> QED BY <1>1, <1>2, <1>3, <1>4

LEMMA MarkedAppend ==
  ASSUME NEW s \in Seq(Atoms), NEW t \in Seq(Atoms), NEW r, Marked(t, r)
  PROVE  Marked(s \o t, r)
<1>1. PICK p \in 1..Len(t) : t[p] = r /\ \A q \in p + 1 .. Len(t) : t[q] # Task
  BY DEF Marked
<1>2. Len(s) \in Nat /\ Len(t) \in Nat /\ Len(s \o t) = Len(s) + Len(t)
  OBVIOUS
<1>3. \A q \in Len(s) + 1 .. Len(s \o t) : (s \o t)[q] = t[q - Len(s)]
  BY <1>2
<1>4. Len(s) + p \in 1..Len(s \o t) /\ (s \o t)[Len(s) + p] = r
  BY <1>1, <1>2, <1>3
<1>5. ASSUME NEW q \in Len(s) + p + 1 .. Len(s \o t) PROVE (s \o t)[q] # Task
  <2>1. q - Len(s) \in p + 1 .. Len(t) /\ (s \o t)[q] = t[q - Len(s)]
    BY <1>1, <1>2, <1>3
  <2> QED BY <1>1, <2>1
<1> QED BY <1>4, <1>5 DEF Marked

LEMMA MarkedBefore ==
  ASSUME NEW s \in Seq(Atoms), NEW t \in Seq(Atoms), NEW r, Marked(s, r), Taskless(t)
  PROVE  Marked(s \o t, r)
<1>1. PICK p \in 1..Len(s) : s[p] = r /\ \A q \in p + 1 .. Len(s) : s[q] # Task
  BY DEF Marked
<1>2. Len(s) \in Nat /\ Len(t) \in Nat /\ Len(s \o t) = Len(s) + Len(t)
  OBVIOUS
<1>3. p \in 1..Len(s \o t) /\ (s \o t)[p] = r
  BY <1>1, <1>2
<1>4. ASSUME NEW q \in p + 1 .. Len(s \o t) PROVE (s \o t)[q] # Task
  <2>1. CASE q <= Len(s)
    <3>1. (s \o t)[q] = s[q] /\ q \in p + 1 .. Len(s)
      BY <1>1, <1>2, <2>1
    <3> QED BY <1>1, <3>1
  <2>2. CASE q > Len(s)
    <3>1. (s \o t)[q] = t[q - Len(s)] /\ q - Len(s) \in 1..Len(t)
      BY <1>1, <1>2, <2>2
    <3> QED BY <3>1 DEF Taskless
  <2> QED BY <1>1, <1>2, <2>1, <2>2
<1> QED BY <1>3, <1>4 DEF Marked

\* A request, cut anywhere behind its first atom, is told.
LEMMA AsksMarked ==
  ASSUME NEW m \in Message, NEW r, Asks(m, r), NEW n \in Nat, n >= 1
  PROVE  Marked(UpTo(m.text, n), r)
<1>1. m.text \in Seq(Atoms) /\ Len(m.text) >= 1 /\ m.text[1] = r /\ Taskless(m.text)
  BY Parts DEF Asks
<1>2. Len(UpTo(m.text, n)) >= 1 /\ UpTo(m.text, n)[1] = r /\ Taskless(UpTo(m.text, n))
  BY <1>1, UpToKeeps
<1>3. Len(UpTo(m.text, n)) \in Nat
  <2>1. UpTo(m.text, n) \in Seq(Atoms)
    BY <1>1, UpToType
  <2> QED BY <2>1
<1>4. 1 \in 1..Len(UpTo(m.text, n))
  BY <1>2, <1>3
<1>5. \A q \in 1 + 1 .. Len(UpTo(m.text, n)) : q \in 1..Len(UpTo(m.text, n))
  BY <1>3
<1>6. \A q \in 1 + 1 .. Len(UpTo(m.text, n)) : UpTo(m.text, n)[q] # Task
  BY <1>2, <1>5 DEF Taskless
<1> QED BY <1>2, <1>4, <1>6 DEF Marked

\* A list that is rebuilt, or stays as it was.
Fold(a, b) == /\ Stated(b)
              /\ b # a => Len(b) <= 2 /\ \A r : Asking(a, r) => Marked(Last(b).text, r)

LEMMA FullResetFolds ==
  ASSUME NEW list, Answerable(list), Stated(list), NEW summary \in Nat, NEW plan \in Nat
  PROVE  Fold(list, FullReset(list, summary, plan))
<1> DEFINE I    == {i \in 1..Len(list) : IsReal(list[i])}
           last == SelectLastInSeq(list, IsReal)
           text == Filler(summary + plan) \o UpTo(list[last].text, MaxRequest)
           new  == Rebuilt(list, text)
<1>1. FullReset(list, summary, plan)
        = IF last = 0 \/ summary = 0 THEN list
          ELSE IF Size(new) >= Size(list) THEN list ELSE new
  BY DEF FullReset
<1>2. list \in Seq(Message) /\ Len(list) \in Nat
  BY DEF Answerable
<1>3. last = IF I # {} THEN Max(I) ELSE 0
  BY DEF SelectLastInSeq
<1> HIDE DEF last
<1>4. ASSUME last # 0 PROVE Fold(list, new)
  <2>1. I # {} /\ I \in SUBSET (1..Len(list)) /\ last = Max(I)
    BY <1>3, <1>4
  <2>2. last \in I
    <3> HIDE DEF I
    <3> QED BY <1>2, <2>1, LargestPosition
  <2>3. list[last] \in Message
    BY <1>2, <2>2
  <2>4. list[last].text \in Seq(Atoms)
    BY <2>3, Parts
  <2>5. UpTo(list[last].text, MaxRequest) \in Seq(Atoms)
    BY <2>4, UpToType, Constants
  <2>6. Filler(summary + plan) \in Seq(Atoms)
    BY FillerType
  <2>7. text \in Seq(Atoms)
    BY <2>5, <2>6
  <2>8. ASSUME NEW r, Asking(list, r) PROVE Marked(text, r)
    <3>1. PICK c \in 1..Len(list) : Asks(list[c], r) /\ \A j \in c + 1 .. Len(list) : Quiet(list[j])
      BY <2>8 DEF Asking
    <3>2. last = c
      <4>1. Max(I) = c
        BY <1>2, <2>1, <3>1, LastReal
      <4> QED BY <2>1, <4>1
    <3>3. Marked(UpTo(list[last].text, MaxRequest), r)
      BY <2>3, <3>1, <3>2, AsksMarked, Constants
    <3> QED BY <2>5, <2>6, <3>3, MarkedAppend
  <2> HIDE DEF text
  <2>9. Stated(new) /\ Len(new) <= 2
    BY <1>2, <2>7, RebuiltStated DEF Rebuilt
  <2>10. Last(new).text = text
    <3>1. Last(new) = Said("user", "real", text)
      BY <1>2, <2>7, RebuiltAnswerable DEF Rebuilt
    <3> QED BY <2>7, <3>1, SaidType
  <2> HIDE DEF new
  <2> QED BY <2>8, <2>9, <2>10 DEF Fold
<1> HIDE DEF new
<1>5. Fold(list, list)
  BY DEF Fold
<1> QED BY <1>1, <1>4, <1>5

\* In a task section stands what the last request asked for.
LEMMA TaskOfMarked ==
  ASSUME NEW list \in Seq(Message), Stated(list), NEW r, Asking(list, r),
         NEW begin \in 1..Len(list), Begins(list[begin]),
         \A i \in begin + 1 .. Len(list) : ~Begins(list[i])
  PROVE  Marked(TaskOf(list, begin), r)
<1> DEFINE I    == {i \in 1..Len(list) : Begins(list[i]) /\ list[i].kind # "note"}
           real == IF I # {} THEN Max(I) ELSE 0
           at   == IF list[begin].kind = "note" /\ real > 0 THEN real ELSE begin
<1>1. TaskOf(list, begin) = Shown(list[at])
  BY DEF TaskOf, SelectLastInSeq
<1>2. PICK c \in 1..Len(list) : Asks(list[c], r) /\ \A j \in c + 1 .. Len(list) : Quiet(list[j])
  BY DEF Asking
<1>3. Len(list) \in Nat /\ I \in SUBSET (1..Len(list))
  OBVIOUS
<1>4. Begins(list[c]) /\ list[c].kind \in {"real", "redirect"} /\ c \in I
  BY <1>2 DEF Asks, Asked, Begins
<1>5. \A i \in c + 1 .. Len(list) : i \notin I
  BY <1>2 DEF Quiet, Begins
<1> HIDE DEF I
<1>6. Max(I) \in I /\ \A i \in I : Max(I) >= i
  BY <1>3, <1>4, LargestPosition
<1>7. Max(I) = c
  <2>1. Max(I) \in 1..Len(list) /\ Max(I) >= c
    BY <1>3, <1>4, <1>6
  <2>2. Max(I) \notin c + 1 .. Len(list)
    BY <1>5, <1>6
  <2> QED BY <1>3, <2>1, <2>2
<1>8. real = c
  BY <1>4, <1>7
<1> HIDE DEF real
<1>9. at = c
  <2>1. CASE begin = c
    BY <1>8, <2>1
  <2>2. CASE begin # c
    <3>1. begin >= c
      BY <1>3, <1>4
    <3>2. begin \in c + 1 .. Len(list)
      BY <1>3, <2>2, <3>1
    <3>3. list[begin].kind = "note"
      BY <1>2, <3>2 DEF Quiet, Begins
    <3> QED BY <1>2, <1>8, <3>3
  <2> QED BY <2>1, <2>2
<1> HIDE DEF at
<1>10. list[c] \in Message
  OBVIOUS
<1>11. Shown(list[c]) = UpTo(list[c].text, MaxItem)
  BY <1>4 DEF Shown
<1>12. Marked(UpTo(list[c].text, MaxItem), r)
  BY <1>2, <1>10, AsksMarked, Constants
<1> QED BY <1>1, <1>9, <1>11, <1>12

LEMMA SummaryFolds ==
  ASSUME NEW list, Answerable(list), Stated(list), NEW goal
  PROVE  /\ Fold(list, ConversationSummary(list, goal))
         /\ ~AtTarget(list, goal) => Len(ConversationSummary(list, goal)) <= 2
<1> DEFINE places  == {i \in DOMAIN list : Begins(list[i])}
           begins  == InOrder(places, list)
           current == Last(begins)
           history == Joined([k \in 1..Len(begins) - 1 |->
                        Shown(list[begins[k]]) \o Told(list, begins[k], begins[k + 1] - 1)])
           task    == IF begins = <<>> THEN <<Task>>
                      ELSE <<Task>> \o TaskOf(list, current) \o Told(list, current, Len(list))
           new     == Rebuilt(list, history \o task)
<1>1. ConversationSummary(list, goal)
        = IF AtTarget(list, goal) \/ Len(list) <= 2 THEN list ELSE new
  BY DEF ConversationSummary
<1>2. list \in Seq(Message) /\ Len(list) \in Nat /\ Len(list) >= 1
  BY DEF Answerable
<1>3. begins \in Seq(1..Len(list)) /\ Len(begins) \in Nat /\ Picks(begins, places, Len(list))
  <2>1. begins \in Seq(1..Len(list))
    BY <1>2, InOrderType
  <2>2. Picks(begins, places, Len(list))
    BY <1>2, InOrderPicks
  <2> QED BY <2>1, <2>2
<1>4. history \in Seq(Atoms) /\ task \in Seq(Atoms)
  BY <1>2, HistoryType
<1> HIDE DEF begins, history
<1>5. ASSUME NEW r, Asking(list, r) PROVE Marked(history \o task, r)
  <2>1. PICK c \in 1..Len(list) : Asks(list[c], r)
    BY <1>5 DEF Asking
  <2>2. c \in places
    BY <2>1 DEF Asks, Asked, Begins
  <2>3. PICK a \in 1..Len(begins) : begins[a] = c
    BY <1>3, <2>2 DEF Picks
  <2>4. begins # <<>> /\ Len(begins) \in 1..Len(begins)
    BY <1>3, <2>3
  <2>5. current \in 1..Len(list) /\ Begins(list[current])
    BY <1>3, <2>4 DEF Picks, Last
  <2>6. ASSUME NEW i \in current + 1 .. Len(list), Begins(list[i]) PROVE FALSE
    <3>1. i \in places /\ i \in 1..Len(list)
      BY <2>5, <2>6
    <3>2. PICK b \in 1..Len(begins) : begins[b] = i
      BY <1>3, <3>1 DEF Picks
    <3>3. b = Len(begins) \/ b < Len(begins)
      BY <1>3
    <3>4. current = begins[Len(begins)]
      BY DEF Last
    <3>5. \A k, l \in 1..Len(begins) : k < l => begins[k] < begins[l]
      BY <1>3 DEF Picks
    <3>6. CASE b = Len(begins)
      BY <2>5, <3>2, <3>4, <3>6
    <3>7. CASE b < Len(begins)
      <4>1. begins[b] < begins[Len(begins)]
        BY <2>4, <3>5, <3>7
      <4>2. i < current
        BY <3>2, <3>4, <4>1
      <4> QED BY <1>2, <2>5, <4>2
    <3> QED BY <3>3, <3>6, <3>7
  <2> DEFINE told == Told(list, current, Len(list))
             of   == TaskOf(list, current)
  <2>7. task = <<Task>> \o of \o told
    BY <2>4
  <2> HIDE DEF current, places
  <2>8. Marked(of, r)
    BY <1>2, <1>5, <2>5, <2>6, TaskOfMarked
  <2>9. of \in Seq(Atoms)
    BY <1>2, <2>5, TaskOfType
  <2>10. told \in Seq({Other})
    <3>1. \A i \in 1..Len(list) :
            list[i].role = "assistant" \/ IsRepl(list[i]) => list[i].text \in Seq({Other})
      BY DEF Stated, Asked, IsRepl, Plain
    <3>2. Len(list) \in 0..Len(list)
      BY <1>2
    <3> QED BY <1>2, <2>5, <3>1, <3>2, ToldType
  <2>11. told \in Seq(Atoms) /\ Taskless(told)
    <3>1. Other \in Atoms /\ Other # Task
      BY Constants DEF Other, Task
    <3> QED BY <2>10, <3>1 DEF Taskless
  <2> HIDE DEF told, of
  <2>12. <<Task>> \in Seq(Atoms)
    BY Constants
  <2>13. Marked(<<Task>> \o of, r) /\ <<Task>> \o of \in Seq(Atoms)
    <3>1. <<Task>> \o of \in Seq(Atoms)
      BY <2>9, <2>12
    <3>2. Marked(<<Task>> \o of, r)
      BY <2>8, <2>9, <2>12, MarkedAppend
    <3> QED BY <3>1, <3>2
  <2>14. Marked(<<Task>> \o of \o told, r)
    BY <2>11, <2>13, MarkedBefore
  <2> HIDE DEF task
  <2>15. Marked(task, r)
    BY <2>7, <2>14
  <2> QED BY <1>4, <2>15, MarkedAppend
<1> HIDE DEF task
<1>6. history \o task \in Seq(Atoms)
  BY <1>4
<1>7. Stated(new) /\ Len(new) <= 2
  BY <1>2, <1>6, RebuiltStated DEF Rebuilt
<1>8. Last(new).text = history \o task
  <2> DEFINE text == history \o task
  <2>1. text \in Seq(Atoms)
    BY <1>6
  <2> HIDE DEF text
  <2>2. Last(Rebuilt(list, text)) = Said("user", "real", text)
    BY <1>2, <2>1, RebuiltAnswerable DEF Rebuilt
  <2>3. Said("user", "real", text).text = text
    BY DEF Said
  <2>4. Last(new) = Said("user", "real", text)
    BY <2>2 DEF text
  <2> QED BY <2>3, <2>4 DEF text
<1> HIDE DEF new
<1>9. Fold(list, new)
  BY <1>5, <1>7, <1>8 DEF Fold
<1>10. Fold(list, list)
  BY DEF Fold
<1> QED BY <1>1, <1>7, <1>9, <1>10

\* The end of a text that still shows a marker tells what stands behind it.
LEMMA SuffixTells ==
  ASSUME NEW text \in Seq(Atoms), NEW r, Marked(text, r), r # Task,
         NEW n \in Nat, n <= Len(text), Contains(Latest(text, n), Task)
  PROVE  Contains(Latest(text, n), r)
<1> DEFINE m == Len(text) - n
           s == Latest(text, n)
<1>1. Len(text) \in Nat /\ m \in Nat
  OBVIOUS
<1>2. s = SubSeq(text, m + 1, Len(text))
  BY DEF Latest
<1>3. Len(s) = n /\ \A q \in 1..n : s[q] = text[m + q]
  BY <1>1, <1>2
<1> HIDE DEF s
<1>4. PICK p \in 1..Len(text) : text[p] = r /\ \A q \in p + 1 .. Len(text) : text[q] # Task
  BY DEF Marked
<1>5. PICK q \in 1..n : s[q] = Task
  BY <1>3 DEF Contains, s
<1>6. text[m + q] = Task /\ m + q \in 1..Len(text)
  BY <1>1, <1>3, <1>5
<1>7. m + q < p
  <2>1. m + q \notin p + 1 .. Len(text) /\ m + q # p
    BY <1>4, <1>6
  <2> QED BY <1>1, <1>4, <1>6, <2>1
<1>8. p - m \in 1..n /\ m + (p - m) = p
  BY <1>1, <1>4, <1>5, <1>7
<1>9. s[p - m] = r
  BY <1>3, <1>4, <1>8
<1> QED BY <1>3, <1>8, <1>9 DEF Contains, s

\* Which message the last resort cuts into, and what of it stays.
LEMMA BlindTruncateCuts ==
  ASSUME NEW list \in Seq(Message), NEW goal \in Int
  PROVE  \/ BlindTruncate(list, goal) = list
         \/ \E user \in 1..Len(list), t \in Seq(Atoms) :
              /\ BlindTruncate(list, goal) = [list EXCEPT ![user].text = t]
              /\ list[user].role = "user" /\ \A i \in 1..user - 1 : list[i].role # "user"
              /\ Contains(list[user].text, Task)
              /\ \A r : r # Task /\ Marked(list[user].text, r) /\ Contains(t, Task) => Contains(t, r)
<1> DEFINE I    == {i \in 1..Len(list) : list[i].role = "user"}
           user == IF I # {} THEN Min(I) ELSE 0
           text == list[user].text
           room == Larger(MinTask, goal - Size(SystemOf(list)) - 1)
           J    == {i \in 1..Len(text) : text[i] = Task}
           pos  == IF J # {} THEN Max(J) ELSE 0
           section == SubSeq(text, pos, Len(text))
           space   == Smaller(room - Len(section) - 1, pos - 1)
           tail == IF space <= 0 THEN section
                   ELSE Latest(SubSeq(text, 1, pos - 1), space) \o <<Other>> \o section
           With(t) == [list EXCEPT ![user].text = t]
           excess  == Larger(0, Size(With(tail)) - goal)
           left    == Larger(MinTask, Len(tail) - excess)
           end     == IF Len(tail) > left THEN Latest(tail, left) ELSE tail
<1>1. BlindTruncate(list, goal)
        = IF user = 0 THEN list
          ELSE IF pos = 0 \/ list[user].images > 0 \/ Len(text) <= room THEN list
          ELSE With(end)
  BY DEF BlindTruncate, SelectInSeq, SelectLastInSeq
<1>2. CASE user = 0 \/ pos = 0 \/ list[user].images > 0 \/ Len(text) <= room
  BY <1>1, <1>2
<1>3. CASE user # 0 /\ pos # 0 /\ BlindTruncate(list, goal) = With(end)
  <2>1. user \in 1..Len(list) /\ list[user].role = "user" /\ \A i \in 1..user - 1 : list[i].role # "user"
    <3>1. Len(list) \in Nat /\ I \in SUBSET (1..Len(list)) /\ I # {} /\ user = Min(I)
      <4>1. Len(list) \in Nat
        OBVIOUS
      <4>2. I \in SUBSET (1..Len(list))
        OBVIOUS
      <4>3. I # {} /\ user = Min(I)
        BY <1>3
      <4> QED BY <4>1, <4>2, <4>3
    <3>2. Min(I) \in I /\ \A i \in I : Min(I) <= i
      <4> HIDE DEF I
      <4> QED BY <3>1, SmallestPosition
    <3>3. user \in 1..Len(list) /\ list[user].role = "user"
      BY <3>1, <3>2
    <3>4. ASSUME NEW i \in 1..user - 1, list[i].role = "user" PROVE FALSE
      <4>1. i \in 1..Len(list) /\ i < user
        BY <3>1, <3>3
      <4>2. i \in I
        BY <3>4, <4>1
      <4> QED BY <3>1, <3>2, <4>1, <4>2
    <3> QED BY <3>3, <3>4
  <2> HIDE DEF user
  <2>2. list[user] \in Message
    BY <2>1
  <2>3. text \in Seq(Atoms) /\ Len(text) \in Nat
    <3>1. text \in Seq(Atoms)
      BY <2>2, Parts
    <3> QED BY <3>1
  <2> HIDE DEF text
  <2>4. pos \in 1..Len(text) /\ text[pos] = Task /\ \A i \in pos + 1 .. Len(text) : text[i] # Task
    <3>1. J \in SUBSET (1..Len(text)) /\ J # {} /\ pos = Max(J)
      BY <1>3
    <3>2. Max(J) \in J /\ \A i \in J : Max(J) >= i
      <4> HIDE DEF J
      <4> QED BY <2>3, <3>1, LargestPosition
    <3>3. pos \in 1..Len(text) /\ text[pos] = Task
      BY <3>1, <3>2
    <3>4. ASSUME NEW i \in pos + 1 .. Len(text), text[i] = Task PROVE FALSE
      <4>1. i \in 1..Len(text) /\ i > pos
        BY <2>3, <3>3
      <4>2. i \in J
        BY <3>4, <4>1
      <4> QED BY <2>3, <3>1, <3>2, <3>3, <4>1, <4>2
    <3> QED BY <3>3, <3>4
  <2> HIDE DEF pos
  <2>5. room \in Int
    <3>1. SystemOf(list) \in Seq(Message)
      BY DEF SystemOf
    <3>2. Size(SystemOf(list)) \in Nat
      BY <3>1, SizeType
    <3>3. goal - Size(SystemOf(list)) - 1 \in Int
      BY <3>2
    <3> QED BY <3>3, Compared, Constants
  <2> HIDE DEF room
  <2>6. /\ section \in Seq(Atoms) /\ Len(section) = Len(text) - pos + 1
        /\ \A q \in 1..Len(text) - pos + 1 : section[q] = text[pos + q - 1]
    BY <2>3, <2>4
  <2> HIDE DEF section
  <2>7. ASSUME NEW r, r # Task, Marked(text, r) PROVE Marked(section, r)
    <3>1. PICK p \in 1..Len(text) : text[p] = r /\ \A q \in p + 1 .. Len(text) : text[q] # Task
      BY <2>7 DEF Marked
    <3>2. p > pos
      <4>1. pos \notin p + 1 .. Len(text) /\ pos # p
        BY <2>4, <2>7, <3>1
      <4> QED BY <2>3, <2>4, <3>1, <4>1
    <3>3. p - pos + 1 \in 1..Len(section) /\ pos + (p - pos + 1) - 1 = p
      BY <2>3, <2>4, <2>6, <3>1, <3>2
    <3>4. section[p - pos + 1] = r
      BY <2>6, <3>1, <3>3
    <3>5. ASSUME NEW q \in (p - pos + 1) + 1 .. Len(section) PROVE section[q] # Task
      <4>1. pos + q - 1 \in p + 1 .. Len(text) /\ q \in 1..Len(text) - pos + 1
        BY <2>3, <2>4, <2>6, <3>1, <3>2
      <4> QED BY <2>6, <3>1, <4>1
    <3> QED BY <3>3, <3>4, <3>5 DEF Marked
  <2>8. space \in Int /\ space <= pos - 1
    <3>1. room - Len(section) - 1 \in Int /\ pos - 1 \in Int
      BY <2>3, <2>4, <2>5, <2>6
    <3> QED BY <3>1, Compared
  <2> HIDE DEF space
  <2>9. tail \in Seq(Atoms) /\ \A r : Marked(section, r) => Marked(tail, r)
    <3>1. CASE space <= 0
      BY <2>6, <3>1
    <3>2. CASE ~(space <= 0)
      <4>1. SubSeq(text, 1, pos - 1) \in Seq(Atoms) /\ Len(SubSeq(text, 1, pos - 1)) = pos - 1
        BY <2>3, <2>4
      <4>2. space \in Nat /\ space <= Len(SubSeq(text, 1, pos - 1))
        BY <2>8, <3>2, <4>1
      <4> DEFINE before == Latest(SubSeq(text, 1, pos - 1), space) \o <<Other>>
      <4>3. Latest(SubSeq(text, 1, pos - 1), space) \in Seq(Atoms)
        BY <4>1, <4>2, LatestType
      <4>4. <<Other>> \in Seq(Atoms)
        BY Constants
      <4>5. before \in Seq(Atoms)
        BY <4>3, <4>4
      <4>6. tail = before \o section
        BY <3>2
      <4> HIDE DEF before, tail
      <4>7. tail \in Seq(Atoms)
        BY <2>6, <4>5, <4>6
      <4>8. \A r : Marked(section, r) => Marked(tail, r)
        BY <2>6, <4>5, <4>6, MarkedAppend
      <4> QED BY <4>7, <4>8
    <3> QED BY <3>1, <3>2
  <2> HIDE DEF tail
  <2>10. Len(tail) \in Nat
    BY <2>9
  <2>11. \A t \in Seq(Atoms) : With(t) \in Seq(Message)
    <3> SUFFICES ASSUME NEW t \in Seq(Atoms) PROVE With(t) \in Seq(Message)
      OBVIOUS
    <3> DEFINE m == [list[user] EXCEPT !.text = t]
    <3>1. m \in Message
      BY <2>2, Changes
    <3>2. With(t) = [list EXCEPT ![user] = m]
      OBVIOUS
    <3> HIDE DEF m
    <3> QED BY <2>1, <3>1, <3>2
  <2>12. excess \in Int
    <3>1. With(tail) \in Seq(Message)
      BY <2>9, <2>11
    <3> HIDE DEF With
    <3>2. Size(With(tail)) \in Nat
      BY <3>1, SizeType
    <3> QED BY <3>2, Compared
  <2> HIDE DEF excess
  <2>13. left \in Nat
    <3>1. Len(tail) - excess \in Int
      BY <2>10, <2>12
    <3> QED BY <3>1, Compared, Constants
  <2> HIDE DEF left
  <2>14. end \in Seq(Atoms)
    <3>1. Len(tail) > left => Latest(tail, left) \in Seq(Atoms)
      BY <2>9, <2>10, <2>13, LatestType
    <3> QED BY <2>9, <3>1
  <2>15. ASSUME NEW r, r # Task, Marked(text, r), Contains(end, Task) PROVE Contains(end, r)
    <3>1. Marked(tail, r)
      BY <2>7, <2>9, <2>15
    <3>2. CASE Len(tail) > left
      <4>1. end = Latest(tail, left)
        BY <3>2
      <4> HIDE DEF end
      <4> QED BY <2>9, <2>10, <2>13, <2>15, <3>1, <3>2, <4>1, SuffixTells
    <3>3. CASE ~(Len(tail) > left)
      BY <3>1, <3>3 DEF Marked, Contains
    <3> QED BY <3>2, <3>3
  <2> HIDE DEF end
  <2>16. Contains(text, Task)
    BY <2>4 DEF Contains
  <2> QED BY <1>3, <2>1, <2>14, <2>15, <2>16 DEF text
<1> QED BY <1>1, <1>2, <1>3

LEMMA BlindTruncateRoles ==
  ASSUME NEW list \in Seq(Message), NEW goal \in Int
  PROVE  SameRoles(list, BlindTruncate(list, goal))
<1>1. CASE BlindTruncate(list, goal) = list
  BY <1>1, SameRolesSelf
<1>2. ASSUME NEW user \in 1..Len(list), NEW t \in Seq(Atoms),
             BlindTruncate(list, goal) = [list EXCEPT ![user].text = t]
      PROVE  SameRoles(list, BlindTruncate(list, goal))
  <2> DEFINE m == [list[user] EXCEPT !.text = t]
  <2>1. m \in Message /\ m.role = list[user].role
    <3>1. list[user] \in Message
      OBVIOUS
    <3> QED BY <3>1, Changes
  <2>2. BlindTruncate(list, goal) = [list EXCEPT ![user] = m]
    BY <1>2
  <2> HIDE DEF m
  <2> QED BY <2>1, <2>2, ReplaceOne
<1>3. CASE BlindTruncate(list, goal) # list
  <2>1. \E user \in 1..Len(list), t \in Seq(Atoms) :
              /\ BlindTruncate(list, goal) = [list EXCEPT ![user].text = t]
              /\ list[user].role = "user" /\ \A i \in 1..user - 1 : list[i].role # "user"
              /\ Contains(list[user].text, Task)
              /\ \A r : r # Task /\ Marked(list[user].text, r) /\ Contains(t, Task) => Contains(t, r)
    BY <1>3, BlindTruncateCuts
  <2>2. PICK user \in 1..Len(list), t \in Seq(Atoms) :
          BlindTruncate(list, goal) = [list EXCEPT ![user].text = t]
    BY <2>1
  <2> QED BY <1>2, <2>2
<1> QED BY <1>1, <1>3

-----------------------------------------------------------------------------
(* The pipeline, and the invariant                                         *)

\* Whichever step it is, and whatever the model would answer.
LEMMA AppliedAnswerable ==
  ASSUME NEW list, Answerable(list), NEW k \in 1..10, NEW goal \in Int,
         NEW summary \in Nat, NEW plan \in Nat
  PROVE  Answerable(Applied(Pipeline[k], list, goal, summary, plan))
<1>1. list \in Seq(Message) /\ list # <<>> /\ Alternates(list) /\ Len(list) \in Nat
  BY DEF Answerable
<1>2. SplitPoint(list) \in 0..Len(list) /\ Len(list) \in 0..Len(list)
  BY <1>1, SplitPointType
<1>3. \A b : SameRoles(list, b) => Answerable(b)
  BY <1>1, SameRolesAnswerable DEF Answerable
<1>4. \A b : Keeps(list, b) => Answerable(b)
  BY DEF Keeps, Answerable
<1>5. CASE k = 1
  <2>1. Applied(Pipeline[k], list, goal, summary, plan) = PruneImages(list, goal)
    BY <1>5 DEF Applied, Pipeline
  <2> QED BY <1>1, <1>3, <2>1, PruneImagesRoles
<1>6. CASE k = 2
  <2>1. Applied(Pipeline[k], list, goal, summary, plan) = OversizeUserPrune(list, goal)
    BY <1>6 DEF Applied, Pipeline
  <2> QED BY <1>1, <1>3, <2>1, OversizeRoles
<1>7. CASE k = 3
  <2>1. Applied(Pipeline[k], list, goal, summary, plan) = DropReasoning(list, goal)
    BY <1>7 DEF Applied, Pipeline
  <2> QED BY <1>1, <1>3, <2>1, DropReasoningRoles
<1>8. CASE k = 4
  <2>1. Applied(Pipeline[k], list, goal, summary, plan) = CollapseTurns(list, SplitPoint(list))
    BY <1>8 DEF Applied, Pipeline
  <2> QED BY <1>1, <1>2, <1>4, <2>1, CollapseKeeps
<1>9. CASE k = 5
  <2>1. Applied(Pipeline[k], list, goal, summary, plan) = RedactBlocks(list, TRUE, goal)
    BY <1>9 DEF Applied, Pipeline
  <2> QED BY <1>1, <1>4, <2>1, RedactBlocksKeeps
<1>10. CASE k = 6
  <2>1. Applied(Pipeline[k], list, goal, summary, plan) = CollapseTurns(list, Len(list))
    BY <1>10 DEF Applied, Pipeline
  <2> QED BY <1>1, <1>2, <1>4, <2>1, CollapseKeeps
<1>11. CASE k = 7
  <2>1. Applied(Pipeline[k], list, goal, summary, plan) = RedactBlocks(list, FALSE, goal)
    BY <1>11 DEF Applied, Pipeline
  <2> QED BY <1>1, <1>4, <2>1, RedactBlocksKeeps
<1>12. CASE k = 8
  <2>1. Applied(Pipeline[k], list, goal, summary, plan) = FullReset(list, summary, plan)
    BY <1>12 DEF Applied, Pipeline
  <2> QED BY <2>1, FullResetAnswerable
<1>13. CASE k = 9
  <2>1. Applied(Pipeline[k], list, goal, summary, plan) = ConversationSummary(list, goal)
    BY <1>13 DEF Applied, Pipeline
  <2> QED BY <2>1, SummaryAnswerable
<1>14. CASE k = 10
  <2>1. Applied(Pipeline[k], list, goal, summary, plan) = BlindTruncate(list, goal)
    BY <1>14 DEF Applied, Pipeline
  <2> QED BY <1>1, <1>3, <2>1, BlindTruncateRoles
<1> QED BY <1>5, <1>6, <1>7, <1>8, <1>9, <1>10, <1>11, <1>12, <1>13, <1>14

Counters ==
  /\ step \in 0..10 /\ target \in Int /\ request \in 0..MaxRequests /\ runs \in Nat
  /\ folded \in BOOLEAN /\ again \in BOOLEAN /\ cut \in BOOLEAN

\* The list is sound at any time, and while the pipeline runs it can be sent.
Sound ==
  /\ messages \in Seq(Message) /\ messages # <<>> /\ Alternates(messages)
  /\ step > 0 => Last(messages).role = "user"

LEMMA PipelineLength == Len(Pipeline) = 10
BY DEF Pipeline

LEMMA AskSound ==
  ASSUME Counters, Sound, NEW kind \in {"real", "redirect"}, NEW size \in RequestSizes, Ask(kind, size)
  PROVE  Sound'
<1> DEFINE text == [i \in 1..size |-> request + 1]
           m    == Said("user", kind, text)
<1>1. size \in Nat /\ request \in Nat /\ request + 1 \in 1..MaxRequests
  BY Constants, CompressionAssumption DEF Counters, Ask
<1>2. request + 1 \in Atoms
  BY <1>1 DEF Atoms
<1>3. text \in Seq(Atoms)
  BY <1>1, <1>2
<1>4. step' = 0
  BY DEF Ask, Idle
<1>5. /\ messages \in Seq(Message) /\ messages # <<>> /\ Alternates(messages)
      /\ kind = "real" => Last(messages).role # "user"
      /\ messages' = Append(IF kind = "redirect" THEN SystemOf(messages) ELSE messages, m)
  BY DEF Ask, Sound, Replied
<1> HIDE DEF text
<1>6. m \in Message /\ m.role = "user" /\ m = Said("user", kind, text)
  BY <1>3, SaidType
<1> HIDE DEF m
<1>7. CASE kind = "real"
  <2>1. messages' = Append(messages, m)
    BY <1>5, <1>7
  <2>2. messages' \in Seq(Message) /\ Alternates(messages') /\ messages' # <<>>
    BY <1>5, <1>6, <1>7, <2>1, AlternatesAppend
  <2> QED BY <1>4, <2>2 DEF Sound, Alternates
<1>8. CASE kind = "redirect"
  <2>1. messages' = Append(SystemOf(messages), m)
    BY <1>5, <1>8
  <2>2. SystemOf(messages) \in Seq(Message)
    BY <1>5 DEF SystemOf
  <2>3. messages' = SystemOf(messages) \o <<m>>
    BY <1>6, <2>1, <2>2, AppendIsConcat
  <2>4. Answerable(messages')
    BY <1>3, <1>5, <1>6, <2>3, RebuiltAnswerable
  <2>5. messages' \in Seq(Message) /\ Alternates(messages') /\ messages' # <<>>
    BY <2>4 DEF Answerable
  <2> QED BY <1>4, <2>5 DEF Sound, Alternates
<1> QED BY <1>7, <1>8

LEMMA AppendSound ==
  ASSUME Sound, NEW m \in Message, Last(messages).role # m.role, step' = 0,
         messages' = Append(messages, m)
  PROVE  Sound'
<1>1. messages' \in Seq(Message) /\ Alternates(messages') /\ messages' # <<>>
  BY AlternatesAppend DEF Sound
<1> QED BY <1>1 DEF Sound, Alternates

LEMMA ReplySound ==
  ASSUME Sound, NEW reasoning \in 0..1, Reply(reasoning)
  PROVE  Sound'
<1> DEFINE m == [Said("assistant", "plain", <<Other>>) EXCEPT !.reasoning = reasoning]
<1>1. <<Other>> \in Seq(Atoms)
  BY Constants
<1>2. Said("assistant", "plain", <<Other>>) \in Message
      /\ Said("assistant", "plain", <<Other>>).role = "assistant"
  <2>1. \A text \in Seq(Atoms) : /\ Said("assistant", "plain", text) \in Message
                                  /\ Said("assistant", "plain", text).role = "assistant"
    BY SaidType
  <2> QED BY <1>1, <2>1
<1>3. m \in Message /\ m.role = "assistant"
  <2> DEFINE said == Said("assistant", "plain", <<Other>>)
  <2>1. said \in Message /\ said.role = "assistant"
    BY <1>2
  <2> HIDE DEF said
  <2>2. [said EXCEPT !.reasoning = reasoning] \in Message
        /\ [said EXCEPT !.reasoning = reasoning].role = said.role
    <3>1. \A n \in Nat : [said EXCEPT !.reasoning = n] \in Message
                         /\ [said EXCEPT !.reasoning = n].role = said.role
      BY <2>1, Changes
    <3> QED BY <3>1
  <2> QED BY <2>1, <2>2 DEF said
<1> HIDE DEF m
<1>4. step' = 0 /\ messages' = Append(messages, m) /\ Last(messages).role = "user"
  BY DEF Reply, Idle, Replied, m
<1> QED BY <1>3, <1>4, AppendSound

LEMMA FeedbackSound ==
  ASSUME Sound, NEW message \in Feedbacks, Feedback(message)
  PROVE  Sound'
<1>1. message \in Message /\ message.role = "user"
  BY FeedbackAssumption
<1>2. step' = 0 /\ messages' = Append(messages, message) /\ Last(messages).role # "user"
  BY DEF Feedback, Idle, Replied
<1> QED BY <1>1, <1>2, AppendSound

LEMMA AttachSound ==
  ASSUME Sound, AttachSummary
  PROVE  Sound'
<1> DEFINE n == Len(messages)
           m == [messages[n] EXCEPT !.summary = TRUE]
<1>1. messages \in Seq(Message) /\ messages # <<>> /\ Alternates(messages) /\ n \in 1..n
  BY DEF Sound
<1>2. messages[n] \in Message
  BY <1>1
<1>3. m \in Message /\ m.role = messages[n].role
  BY <1>2, Changes
<1>4. step' = 0 /\ messages' = [messages EXCEPT ![n] = m]
  BY DEF AttachSummary, Idle
<1> HIDE DEF m
<1>5. SameRoles(messages, messages')
  BY <1>1, <1>3, <1>4, ReplaceOne
<1>6. messages' \in Seq(Message) /\ messages' # <<>> /\ Alternates(messages')
  BY <1>1, <1>5, SameRolesAnswerable
<1> QED BY <1>4, <1>6 DEF Sound, Alternates

LEMMA BeginSound ==
  ASSUME Sound, NEW goal, Begin(goal)
  PROVE  Sound'
BY DEF Sound, Begin, Replied, Alternates

LEMMA RunStepSound ==
  ASSUME Counters, Sound, NEW summary \in Nat, NEW plan \in Nat, RunStep(summary, plan)
  PROVE  Sound'
<1>1. step \in 1..10 /\ target \in Int
  BY DEF Counters, RunStep
<1>2. Answerable(messages)
  BY <1>1 DEF Sound, Answerable
<1>3. Answerable(Applied(Pipeline[step], messages, target, summary, plan))
  BY <1>1, <1>2, AppliedAnswerable
<1>4. messages' = Applied(Pipeline[step], messages, target, summary, plan)
  BY DEF RunStep
<1>5. Answerable(messages')
  BY <1>3, <1>4
<1> QED BY <1>5 DEF Sound, Answerable, Alternates

LEMMA GateCounters ==
  ASSUME Counters, Sound, NEW goal \in Int, Begin(goal)
  PROVE  Counters'
BY DEF Counters, Begin

LEMMA StepCounters ==
  ASSUME Counters, Sound, NEW summary \in Nat, NEW plan \in Nat, RunStep(summary, plan)
  PROVE  Counters'
<1>1. step \in 1..10
  BY DEF Counters, RunStep
<1>2. UNCHANGED <<request, again, runs>>
  BY DEF RunStep
<1>3. \/ step' = 0 /\ target' = 0
      \/ step # 10 /\ step' = step + 1 /\ target' = target
  BY PipelineLength DEF RunStep
<1>4. step' \in 0..10 /\ target' \in Int
  BY <1>1, <1>3 DEF Counters
<1>5. folded' \in BOOLEAN /\ cut' \in BOOLEAN
  BY DEF RunStep
<1> QED BY <1>2, <1>4, <1>5 DEF Counters

LEMMA InitSound == Init => Counters /\ Sound
<1> SUFFICES ASSUME Init PROVE Counters /\ Sound
  OBVIOUS
<1>1. <<Other>> \in Seq(Atoms)
  BY Constants
<1> DEFINE m == Said("system", "plain", <<Other>>)
<1>2. m \in Message
  BY <1>1, SaidType
<1> HIDE DEF m
<1>3. messages = <<m>> /\ step = 0
  BY DEF Init, m
<1>4. messages \in Seq(Message) /\ messages # <<>> /\ Len(messages) = 1
  BY <1>2, <1>3
<1>5. Alternates(messages)
  BY <1>4 DEF Alternates
<1>6. Sound
  BY <1>3, <1>4, <1>5 DEF Sound
<1>7. Counters
  <2>1. step \in 0..10 /\ target \in Int /\ request \in 0..MaxRequests /\ runs \in Nat
    BY Constants DEF Init
  <2>2. folded \in BOOLEAN /\ again \in BOOLEAN /\ cut \in BOOLEAN
    BY DEF Init
  <2> QED BY <2>1, <2>2 DEF Counters
<1> QED BY <1>6, <1>7

LEMMA SoundInductive ==
  ASSUME Counters, Sound, [Next]_vars
  PROVE  Counters' /\ Sound'
<1>1. CASE \E kind \in {"real", "redirect"}, size \in RequestSizes : Ask(kind, size)
  <2>1. PICK kind \in {"real", "redirect"}, size \in RequestSizes : Ask(kind, size)
    BY <1>1
  <2>2. request' \in 0..MaxRequests
    BY <2>1, Constants DEF Ask, Counters
  <2>3. Counters'
    BY <2>1, <2>2 DEF Ask, Counters, Idle
  <2> QED BY <2>1, <2>3, AskSound
<1>2. CASE \E reasoning \in 0..1 : Reply(reasoning)
  <2>1. Counters'
    BY <1>2 DEF Reply, Counters
  <2> QED BY <1>2, <2>1, ReplySound
<1>3. CASE \E message \in Feedbacks : Feedback(message)
  <2>1. Counters'
    BY <1>3 DEF Feedback, Counters
  <2> QED BY <1>3, <2>1, FeedbackSound
<1>4. CASE AttachSummary
  <2>1. Counters'
    BY <1>4 DEF AttachSummary, Counters
  <2> QED BY <1>4, <2>1, AttachSound
<1>5. CASE Gate
  <2> DEFINE size == Size(messages)
             goal == CompressionTarget(size, 2 * size - Window, 2 * size, size)
  <2>1. size \in Nat
    BY SizeType DEF Sound
  <2>2. 2 * size > Window /\ Begin(goal)
    BY <1>5 DEF Gate
  <2> HIDE DEF size
  <2>3. 2 * size \in Nat /\ 2 * size > 0 /\ 2 * size - Window \in Int
    BY <2>1, <2>2, Constants
  <2>4. goal \in Int
    BY <2>1, <2>3, TargetType
  <2> HIDE DEF goal
  <2> QED BY <2>2, <2>4, GateCounters, BeginSound
<1>6. CASE \E told \in BOOLEAN : Overflow(told)
  <2>1. PICK told \in BOOLEAN : Overflow(told)
    BY <1>6
  <2> DEFINE size == Size(messages)
             tokens == IF told THEN size ELSE -1
             goal == CompressionTarget(size, 30, 100, tokens)
  <2>2. size \in Nat
    BY SizeType DEF Sound
  <2>3. Begin(goal)
    BY <2>1 DEF Overflow
  <2> HIDE DEF size
  <2>4. tokens \in Int
    BY <2>2
  <2> HIDE DEF tokens
  <2>5. goal \in Int
    BY <2>2, <2>4, TargetType
  <2> HIDE DEF goal
  <2> QED BY <2>3, <2>5, GateCounters, BeginSound
<1>7. CASE \E summary \in {0, 2}, plan \in 0..1 : RunStep(summary, plan)
  <2>1. PICK summary \in Nat, plan \in Nat : RunStep(summary, plan)
    BY <1>7
  <2> QED BY <2>1, StepCounters, RunStepSound
<1>8. CASE UNCHANGED vars
  BY <1>8 DEF vars, Counters, Sound, Alternates
<1> QED BY <1>1, <1>2, <1>3, <1>4, <1>5, <1>6, <1>7, <1>8 DEF Next

LEMMA SoundAlways == Spec => [](Counters /\ Sound)
<1>1. Counters /\ Sound /\ [Next]_vars => (Counters /\ Sound)'
  BY SoundInductive
<1> QED BY <1>1, InitSound, PTL DEF Spec

\* What the pipeline works on are messages, in numbers that fit.
THEOREM TypeCorrect == Spec => []TypeOK
<1>1. Counters /\ Sound => TypeOK
  BY PipelineLength DEF Counters, Sound, TypeOK
<1> QED BY <1>1, SoundAlways, PTL

\* Whatever a step removes, the list can be sent as it is.
THEOREM ListsCanBeSent == Spec => []Sendable
<1>1. Counters /\ Sound => Sendable
  BY DEF Sound, Sendable, Alternates
<1> QED BY <1>1, SoundAlways, PTL

-----------------------------------------------------------------------------
(* The current request, through all of a compression                       *)

\* The first seven steps keep every list's last request; from the third on
\* they lose none, and leave the last message alone.
LEMMA AppliedHolds ==
  ASSUME NEW list, Answerable(list), Stated(list), NEW k \in 1..7, NEW goal \in Int,
         NEW summary \in Nat, NEW plan \in Nat, NEW new,
         new = Applied(Pipeline[k], list, goal, summary, plan)
  PROVE  Holds(list, new) /\ (k >= 3 => ~Loses(list, new) /\ Last(new) = Last(list))
<1>1. list \in Seq(Message) /\ list # <<>> /\ Alternates(list) /\ Last(list).role = "user"
      /\ Len(list) \in Nat
  BY DEF Answerable
<1>2. SplitPoint(list) \in 0..Len(list) /\ Len(list) \in 0..Len(list)
  BY <1>1, SplitPointType
<1>10. \A b : /\ Holds(list, RedactBlocks(list, b, goal))
             /\ ~Loses(list, RedactBlocks(list, b, goal))
             /\ Last(RedactBlocks(list, b, goal)) = Last(list)
  BY <1>1, RedactBlocksHolds
<1>3. CASE k = 1
  <2>1. new = PruneImages(list, goal)
    BY <1>3 DEF Applied, Pipeline
  <2> QED BY <1>1, <1>3, <2>1, PruneImagesHolds
<1>4. CASE k = 2
  <2>1. new = OversizeUserPrune(list, goal)
    BY <1>4 DEF Applied, Pipeline
  <2> QED BY <1>1, <1>4, <2>1, OversizeHolds
<1>5. CASE k = 3
  <2>1. new = DropReasoning(list, goal)
    BY <1>5 DEF Applied, Pipeline
  <2> QED BY <1>1, <2>1, DropReasoningHolds
<1>6. CASE k = 4
  <2>1. new = CollapseTurns(list, SplitPoint(list))
    BY <1>6 DEF Applied, Pipeline
  <2> QED BY <1>1, <1>2, <2>1, CollapseHolds
<1>7. CASE k = 5
  <2>1. new = RedactBlocks(list, TRUE, goal)
    BY <1>7 DEF Applied, Pipeline
  <2> QED BY <1>10, <2>1
<1>8. CASE k = 6
  <2>1. new = CollapseTurns(list, Len(list))
    BY <1>8 DEF Applied, Pipeline
  <2> QED BY <1>1, <1>2, <2>1, CollapseHolds
<1>9. CASE k = 7
  <2>1. new = RedactBlocks(list, FALSE, goal)
    BY <1>9 DEF Applied, Pipeline
  <2> QED BY <1>10, <2>1
<1> QED BY <1>3, <1>4, <1>5, <1>6, <1>7, <1>8, <1>9

\* The eighth and the ninth fold the list into one message or leave it alone;
\* what the ninth leaves is short.
LEMMA AppliedFolds ==
  ASSUME NEW list, Answerable(list), Stated(list), NEW k \in 8..9, NEW goal \in Int,
         NEW summary \in Nat, NEW plan \in Nat, NEW new,
         new = Applied(Pipeline[k], list, goal, summary, plan)
  PROVE  /\ Fold(list, new)
         /\ k = 9 /\ ~AtTarget(list, goal) => Len(new) <= 2
         /\ k = 9 /\ Len(list) <= 2 => new = list
<1>1. CASE k = 8
  <2>1. new = FullReset(list, summary, plan)
    BY <1>1 DEF Applied, Pipeline
  <2> QED BY <1>1, <2>1, FullResetFolds
<1>2. CASE k = 9
  <2>1. new = ConversationSummary(list, goal)
    BY <1>2 DEF Applied, Pipeline
  <2>2. Len(list) <= 2 => new = list
    BY <2>1 DEF ConversationSummary
  <2> QED BY <1>2, <2>1, <2>2, SummaryFolds
<1> QED BY <1>1, <1>2

\* The tenth cuts into a task section only: a list that still states its
\* request has none, and where the marker stays, what it marks stays.
Spares(a, b) ==
  /\ Stated(b)
  /\ \A r : Asking(a, r) => b = a
  /\ \A r : r # Task /\ Marked(Last(a).text, r) /\ b # a /\ Contains(Last(b).text, Task)
            => Contains(Last(b).text, r)

LEMMA AppliedCuts ==
  ASSUME NEW list, Answerable(list), Stated(list), Len(list) <= 2, NEW goal \in Int,
         NEW summary \in Nat, NEW plan \in Nat, NEW new,
         new = Applied(Pipeline[10], list, goal, summary, plan)
  PROVE  Spares(list, new)
<1>1. list \in Seq(Message) /\ list # <<>> /\ Alternates(list) /\ Last(list).role = "user"
      /\ Len(list) \in 1..2
  <2>1. list \in Seq(Message) /\ list # <<>> /\ Alternates(list) /\ Last(list).role = "user"
    BY DEF Answerable
  <2>2. Len(list) \in Nat /\ Len(list) # 0
    BY <2>1
  <2> DEFINE n == Len(list)
  <2>3. n \in Nat /\ n # 0 /\ n <= 2
    BY <2>2
  <2> HIDE DEF n
  <2>4. n \in 1..2
    BY <2>3
  <2> QED BY <2>1, <2>4 DEF n
<1>2. new = BlindTruncate(list, goal)
  BY DEF Applied, Pipeline
<1>3. CASE new = list
  BY <1>3 DEF Spares
<1>4. CASE new # list
  <2>1. \E user \in 1..Len(list), t \in Seq(Atoms) :
          /\ BlindTruncate(list, goal) = [list EXCEPT ![user].text = t]
          /\ list[user].role = "user" /\ \A i \in 1..user - 1 : list[i].role # "user"
          /\ Contains(list[user].text, Task)
          /\ \A r : r # Task /\ Marked(list[user].text, r) /\ Contains(t, Task) => Contains(t, r)
    BY <1>1, <1>2, <1>4, BlindTruncateCuts
  <2>2. PICK user \in 1..Len(list), t \in Seq(Atoms) :
          /\ BlindTruncate(list, goal) = [list EXCEPT ![user].text = t]
          /\ list[user].role = "user" /\ \A i \in 1..user - 1 : list[i].role # "user"
          /\ Contains(list[user].text, Task)
          /\ \A r : r # Task /\ Marked(list[user].text, r) /\ Contains(t, Task) => Contains(t, r)
    BY <2>1
  <2> DEFINE m == [list[user] EXCEPT !.text = t]
  <2>3. list[user] \in Message
    BY <1>1, <2>2
  <2>4. m.role = list[user].role /\ m.kind = list[user].kind /\ m.text = t
    BY <2>3, Changes
  <2>5. new = [list EXCEPT ![user] = m]
    BY <1>2, <2>2
  <2> HIDE DEF m
  <2>6. Len(new) = Len(list) /\ \A i \in 1..Len(list) : new[i] = IF i = user THEN m ELSE list[i]
    BY <1>1, <2>5
  <2>7. Asked(list[user])
    <3>1. ~Plain(list[user])
      <4> SUFFICES ASSUME Plain(list[user]) PROVE FALSE
        OBVIOUS
      <4>1. PICK q \in 1..Len(list[user].text) : list[user].text[q] = Task
        BY <2>2 DEF Contains
      <4>2. list[user].text[q] \in {Other}
        BY <4>1 DEF Plain
      <4> QED BY <4>1, <4>2 DEF Task, Other
    <3> QED BY <2>2, <3>1 DEF Stated
  <2>8. Asked(m) /\ (IsReal(m) <=> IsReal(list[user]))
    BY <2>4, <2>7 DEF Asked, IsReal
  <2>9. Stated(new)
    <3>1. \A i \in 1..Len(new) : Asked(new[i]) \/ (Plain(new[i]) /\ Quiet(new[i]))
      BY <2>6, <2>8 DEF Stated
    <3>2. \A i, j \in 1..Len(new) :
            i < j /\ Asked(new[j]) /\ new[j].kind = "redirect" => ~IsReal(new[i])
      BY <2>2, <2>4, <2>6, <2>7, <2>8 DEF Stated
    <3> QED BY <3>1, <3>2 DEF Stated
  <2>10. user = Len(list)
    <3>1. CASE Len(list) = 1
      BY <2>2, <3>1
    <3>2. CASE Len(list) = 2
      <4>1. list[1].role # list[2].role
        BY <1>1, <3>2 DEF Alternates
      <4>2. list[2].role = "user"
        BY <1>1, <3>2 DEF Last
      <4> QED BY <2>2, <3>2, <4>1, <4>2
    <3> QED BY <1>1, <3>1, <3>2
  <2>11. Last(list) = list[user] /\ Last(new) = m
    BY <1>1, <2>6, <2>10 DEF Last
  <2>12. ASSUME NEW r, Asking(list, r) PROVE FALSE
    <3>1. PICK c \in 1..Len(list) : Asks(list[c], r)
      BY <2>12 DEF Asking
    <3>2. c = user
      <4>1. list[c].role = "user"
        BY <3>1 DEF Asks, Asked
      <4>2. c \notin 1..user - 1
        BY <2>2, <4>1
      <4> QED BY <1>1, <2>10, <3>1, <4>2
    <3> QED BY <2>2, <3>1, <3>2 DEF Asks, Taskless, Contains
  <2>13. ASSUME NEW r, r # Task, Marked(Last(list).text, r), Contains(Last(new).text, Task)
         PROVE  Contains(Last(new).text, r)
    BY <2>2, <2>4, <2>11, <2>13
  <2> QED BY <2>9, <2>12, <2>13 DEF Spares
<1> QED BY <1>3, <1>4

\* What the current request is told by, before its list is rebuilt and after.
\* A message that is no request says nothing about it; the marker of the task,
\* which only a rebuilt message has, keeps the last resort from cutting into it.
Kept ==
  /\ Stated(messages)
  /\ step > 0 => target > 0
  /\ step > 1 => Size(messages) > target
  /\ step = 10 => Len(messages) <= 2
  /\ request > 0 /\ ~again /\ ~folded => Asking(messages, request)
  /\ request > 0 /\ ~again /\ folded /\ ~cut =>
       /\ request \in Carried(messages)
       /\ step > 0 => step >= 9 /\ Len(messages) <= 2 /\ Marked(Last(messages).text, request)

LEMMA AskingCarries ==
  ASSUME NEW list, NEW r \in 1..MaxRequests, Asking(list, r), list \in Seq(Message)
  PROVE  r \in Carried(list)
<1>1. PICK c \in 1..Len(list) : Asks(list[c], r)
  BY DEF Asking
<1>2. list[c].text \in Seq(Atoms)
  <2>1. list[c] \in Message
    BY <1>1
  <2> QED BY <2>1, Parts
<1>3. 1 \in 1..Len(list[c].text) /\ list[c].text[1] = r
  BY <1>1, <1>2 DEF Asks
<1>4. Contains(list[c].text, r) /\ c \in DOMAIN list
  BY <1>3 DEF Contains
<1> QED BY <1>4 DEF Carried

LEMMA LastCarries ==
  ASSUME NEW list \in Seq(Message), list # <<>>, NEW r \in 1..MaxRequests, Contains(Last(list).text, r)
  PROVE  r \in Carried(list)
<1>1. Len(list) \in DOMAIN list /\ Last(list) = list[Len(list)]
  BY DEF Last
<1> QED BY <1>1 DEF Carried

\* Nothing is said between the requests that could be taken for one.
LEMMA AppendKept ==
  ASSUME Sound, Kept, NEW m \in Message, Plain(m), Quiet(m),
         messages' = Append(messages, m), step' = 0, UNCHANGED <<request, folded, again, cut>>
  PROVE  Kept'
<1> DEFINE new == Append(messages, m)
           n   == Len(messages)
<1>1. messages \in Seq(Message) /\ n \in Nat
  BY DEF Sound
<1>2. Len(new) = n + 1 /\ new[n + 1] = m /\ \A i \in 1..n : new[i] = messages[i]
  BY <1>1
<1>3. ~Asked(m)
  BY DEF Asked, Quiet
<1> HIDE DEF new
<1>4. Stated(new)
  <2>1. ASSUME NEW i \in 1..Len(new) PROVE i \in 1..n \/ i = n + 1
    BY <1>1, <1>2
  <2>2. \A i \in 1..Len(new) : Asked(new[i]) \/ (Plain(new[i]) /\ Quiet(new[i]))
    BY <1>2, <2>1 DEF Kept, Stated
  <2>3. ASSUME NEW i \in 1..Len(new), NEW j \in 1..Len(new), i < j, Asked(new[j]), new[j].kind = "redirect"
        PROVE  ~IsReal(new[i])
    <3>1. j \in 1..n
      BY <1>2, <1>3, <2>1, <2>3
    <3>2. i \in 1..n
      BY <1>1, <2>1, <2>3, <3>1
    <3> QED BY <1>2, <2>3, <3>1, <3>2 DEF Kept, Stated
  <2> QED BY <2>2, <2>3 DEF Stated
<1>5. ASSUME NEW r, Asking(messages, r) PROVE Asking(new, r)
  <2>1. PICK c \in 1..n : Asks(messages[c], r) /\ \A j \in c + 1 .. n : Quiet(messages[j])
    BY <1>5 DEF Asking
  <2>2. c \in 1..Len(new) /\ Asks(new[c], r)
    BY <1>1, <1>2, <2>1
  <2>3. ASSUME NEW j \in c + 1 .. Len(new) PROVE Quiet(new[j])
    <3>1. j = n + 1 \/ j \in c + 1 .. n
      BY <1>1, <1>2, <2>1
    <3>2. c + 1 .. n \subseteq 1..n
      BY <1>1, <2>1
    <3> QED BY <1>2, <2>1, <3>1, <3>2
  <2> QED BY <2>2, <2>3 DEF Asking
<1>6. Carried(messages) \subseteq Carried(new)
  <2> SUFFICES ASSUME NEW r \in Carried(messages) PROVE r \in Carried(new)
    OBVIOUS
  <2>1. PICK i \in 1..n : Contains(messages[i].text, r)
    BY <1>1 DEF Carried
  <2>2. i \in DOMAIN new /\ Contains(new[i].text, r)
    BY <1>1, <1>2, <2>1 DEF new
  <2> QED BY <2>2 DEF Carried
<1>7. messages' = new
  BY DEF new
<1> QED BY <1>4, <1>5, <1>6, <1>7 DEF Kept

LEMMA AttachKept ==
  ASSUME Sound, Kept, AttachSummary
  PROVE  Kept'
<1> DEFINE n == Len(messages)
           m == [messages[n] EXCEPT !.summary = TRUE]
           new == [messages EXCEPT ![n] = m]
<1>1. messages \in Seq(Message) /\ messages # <<>> /\ n \in Nat /\ n \in 1..n
  BY DEF Sound
<1>2. messages[n] \in Message
  BY <1>1
<1>3. m.role = messages[n].role /\ m.kind = messages[n].kind /\ m.text = messages[n].text
  BY <1>2, Changes
<1>4. step' = 0 /\ messages' = new /\ UNCHANGED <<request, folded, again, cut>>
  BY DEF AttachSummary, Idle
<1> HIDE DEF m
<1>5. Len(new) = n /\ \A i \in 1..n : new[i] = IF i = n THEN m ELSE messages[i]
  BY <1>1
<1> HIDE DEF new
<1>6. Altered(messages[n], m)
  BY <1>3 DEF Altered, Plain, Asks, Asked
<1>7. \A i \in 1..n : Altered(messages[i], new[i])
  BY <1>5, <1>6, AlteredSelf
<1>8. Holds(messages, new)
  BY <1>5, <1>7, AlteredHolds DEF Kept
<1>9. Carried(messages) \subseteq Carried(new)
  <2> SUFFICES ASSUME NEW r \in Carried(messages) PROVE r \in Carried(new)
    OBVIOUS
  <2>1. PICK i \in 1..n : Contains(messages[i].text, r)
    BY <1>1 DEF Carried
  <2>2. i \in DOMAIN new /\ Contains(new[i].text, r)
    BY <1>1, <1>3, <1>5, <2>1 DEF new
  <2> QED BY <2>2 DEF Carried
<1> QED BY <1>4, <1>8, <1>9 DEF Kept, Holds

LEMMA ReplyKept ==
  ASSUME Sound, Kept, NEW reasoning \in 0..1, Reply(reasoning)
  PROVE  Kept'
<1> DEFINE said == Said("assistant", "plain", <<Other>>)
           m    == [said EXCEPT !.reasoning = reasoning]
<1>1. <<Other>> \in Seq(Atoms) /\ <<Other>> \in Seq({Other})
  BY Constants
<1>2. said \in Message /\ said.role = "assistant" /\ said.text = <<Other>>
  <2>1. said \in Message /\ said.role = "assistant"
    <3>1. \A text \in Seq(Atoms) : /\ Said("assistant", "plain", text) \in Message
                                    /\ Said("assistant", "plain", text).role = "assistant"
      BY SaidType
    <3> QED BY <1>1, <3>1
  <2>2. said.text = <<Other>>
    BY DEF Said
  <2> QED BY <2>1, <2>2
<1>3. step' = 0 /\ messages' = Append(messages, m) /\ UNCHANGED <<request, folded, again, cut>>
  BY DEF Reply, Idle
<1> HIDE DEF said
<1>4. \A n \in Nat : [said EXCEPT !.reasoning = n] \in Message
                     /\ [said EXCEPT !.reasoning = n].role = said.role
                     /\ [said EXCEPT !.reasoning = n].text = said.text
  BY <1>2, Changes
<1>5. m \in Message /\ m.role = "assistant" /\ m.text = <<Other>>
  BY <1>2, <1>4
<1> HIDE DEF m
<1>6. Plain(m) /\ Quiet(m)
  BY <1>1, <1>5 DEF Plain, Quiet
<1> QED BY <1>3, <1>5, <1>6, AppendKept

LEMMA FeedbackKept ==
  ASSUME Sound, Kept, NEW message \in Feedbacks, Feedback(message)
  PROVE  Kept'
<1>1. message \in Message /\ Plain(message) /\ Quiet(message)
  BY FeedbackAssumption DEF Plain, Quiet
<1>2. step' = 0 /\ messages' = Append(messages, message) /\ UNCHANGED <<request, folded, again, cut>>
  BY DEF Feedback, Idle
<1> QED BY <1>1, <1>2, AppendKept

\* A request stands at the end, as what it is.
LEMMA AskKept ==
  ASSUME Counters, Sound, Kept, NEW kind \in {"real", "redirect"}, NEW size \in RequestSizes,
         Ask(kind, size)
  PROVE  Kept'
<1> DEFINE r    == request + 1
           text == [i \in 1..size |-> r]
           m    == Said("user", kind, text)
           kept == IF kind = "redirect" THEN SystemOf(messages) ELSE messages
           new  == Append(kept, m)
<1>1. size \in Nat /\ size >= 1 /\ r \in 1..MaxRequests /\ r \in Atoms /\ r # Task
  BY Constants, CompressionAssumption DEF Counters, Ask, Atoms, Task
<1> HIDE DEF r
<1>2. text \in Seq(Atoms) /\ Len(text) = size /\ \A i \in 1..size : text[i] = r
  BY <1>1
<1>3. messages \in Seq(Message) /\ Stated(messages)
  BY DEF Sound, Kept
<1>4. step' = 0 /\ messages' = new /\ request' = r /\ folded' = FALSE
  BY DEF Ask, Idle, r
<1> HIDE DEF text
<1>5. m \in Message /\ m.role = "user" /\ m.kind = kind /\ m.text = text
  BY <1>2, SaidType
<1>6. Asks(m, r)
  <2>1. Taskless(text) /\ Len(text) >= 1 /\ text[1] = r
    BY <1>1, <1>2 DEF Taskless
  <2> QED BY <1>5, <2>1 DEF Asks, Asked
<1>7. kept \in Seq(Message)
  <2>1. SystemOf(messages) \in Seq(Message)
    BY <1>3 DEF SystemOf
  <2> QED BY <1>3, <2>1
<1>8. Stated(new)
  <2>1. CASE kind = "redirect"
    <3>1. new = SystemOf(messages) \o <<m>>
      BY <1>5, <1>7, <2>1, AppendIsConcat
    <3> QED BY <1>2, <1>3, <3>1, RebuiltStated
  <2>2. CASE kind = "real"
    <3> DEFINE n == Len(messages)
    <3>1. n \in Nat /\ new = Append(messages, m)
      BY <1>3, <2>2
    <3> HIDE DEF m, new
    <3>2. Len(new) = n + 1 /\ new[n + 1] = m /\ \A i \in 1..n : new[i] = messages[i]
      BY <1>3, <3>1
    <3>3. ASSUME NEW i \in 1..Len(new) PROVE i \in 1..n \/ i = n + 1
      BY <3>1, <3>2
    <3>4. \A i \in 1..Len(new) : Asked(new[i]) \/ (Plain(new[i]) /\ Quiet(new[i]))
      BY <1>3, <1>6, <3>2, <3>3 DEF Stated, Asks
    <3>5. ASSUME NEW i \in 1..Len(new), NEW j \in 1..Len(new), i < j, Asked(new[j]), new[j].kind = "redirect"
          PROVE  ~IsReal(new[i])
      <4>1. j \in 1..n
        BY <1>5, <2>2, <3>2, <3>3, <3>5
      <4>2. i \in 1..n
        BY <3>1, <3>3, <3>5, <4>1
      <4> QED BY <1>3, <3>2, <3>5, <4>1, <4>2 DEF Stated
    <3> QED BY <3>4, <3>5 DEF Stated
  <2> QED BY <2>1, <2>2
<1> HIDE DEF m, kept
<1>9. Len(new) \in 1..Len(new) /\ new[Len(new)] = m /\ Len(new) \in Nat
  BY <1>5, <1>7
<1> HIDE DEF new
<1>10. Asking(new, r)
  <2>1. \A j \in Len(new) + 1 .. Len(new) : Quiet(new[j])
    BY <1>9
  <2>2. Asks(new[Len(new)], r)
    BY <1>6, <1>9
  <2> QED BY <1>9, <2>1, <2>2 DEF Asking
<1> QED BY <1>4, <1>8, <1>10 DEF Kept

\* A compression that begins on a rebuilt list is again one: nothing more is
\* promised of the request.
LEMMA BeginKept ==
  ASSUME Counters, Kept, NEW goal \in Int, goal >= 1, Begin(goal)
  PROVE  Kept'
<1>1. /\ step' = 1 /\ target' = goal /\ again' = (again \/ folded)
      /\ messages' = messages /\ request' = request /\ folded' = folded
  BY DEF Begin
<1>2. Stated(messages') /\ (request > 0 /\ ~again /\ ~folded => Asking(messages', request))
  BY <1>1 DEF Kept
<1>3. again \in BOOLEAN /\ folded \in BOOLEAN
  BY DEF Counters
<1> QED BY <1>1, <1>2, <1>3 DEF Kept

\* One step of the pipeline.  Before the list is rebuilt the request is the
\* last one stated; the step that rebuilds it puts it behind the marker, where
\* the two steps that may follow leave it or show that they have cut.
LEMMA RunStepKept ==
  ASSUME Counters, Sound, Kept, NEW summary \in Nat, NEW plan \in Nat, RunStep(summary, plan)
  PROVE  Kept'
<1> DEFINE new == Applied(Pipeline[step], messages, target, summary, plan)
<1>1. step \in 1..10 /\ target \in Int /\ request \in 0..MaxRequests
      /\ again \in BOOLEAN /\ folded \in BOOLEAN /\ cut \in BOOLEAN
  BY DEF Counters, RunStep
<1>2. Answerable(messages) /\ messages \in Seq(Message) /\ messages # <<>>
  BY <1>1 DEF Sound, Answerable
<1>3. messages' = new /\ request' = request /\ again' = again
  BY DEF RunStep
<1>4. /\ step = 8 <=> Pipeline[step] = "FULL_RESET"
      /\ step = 9 <=> Pipeline[step] = "CONVERSATION_SUMMARY"
      /\ step = 10 <=> Pipeline[step] = "BLIND_TRUNCATE"
  BY <1>1 DEF Pipeline
<1>5. /\ folded' <=> folded \/ (new # messages /\ step \in {8, 9})
      /\ cut' <=> cut \/ (step = 10 /\ new # messages /\ ~Contains(Last(new).text, Task))
  BY <1>1, <1>4 DEF RunStep
<1>6. \/ step' = 0 /\ target' = 0
      \/ step # 10 /\ step' = step + 1 /\ target' = target /\ ~(Size(new) <= target)
  BY PipelineLength DEF RunStep
<1>7. Answerable(new)
  BY <1>1, <1>2, AppliedAnswerable
<1>8. /\ Stated(messages) /\ target > 0
      /\ step > 1 => Size(messages) > target
      /\ step = 10 => Len(messages) <= 2
  BY <1>1 DEF Kept
<1>9. request > 0 /\ ~again /\ ~folded => Asking(messages, request)
  BY DEF Kept
<1>10. request > 0 /\ ~again /\ folded /\ ~cut =>
         /\ request \in Carried(messages) /\ step >= 9 /\ Len(messages) <= 2
         /\ Marked(Last(messages).text, request)
  BY <1>1 DEF Kept
<1>11. new \in Seq(Message) /\ new # <<>> /\ Size(new) \in Nat /\ Size(messages) \in Nat
  BY <1>2, <1>7, SizeType DEF Answerable
<1>12. CASE step \in 1..7
  <2>1. Holds(messages, new)
    BY <1>1, <1>2, <1>8, <1>12, AppliedHolds
  <2> HIDE DEF new
  <2>2. (folded' <=> folded) /\ (cut' <=> cut) /\ step' # 10
    <3>1. step \notin {8, 9} /\ step # 10
      BY <1>12
    <3>2. (folded' <=> folded) /\ (cut' <=> cut)
      BY <1>5, <3>1
    <3>3. step' # 10
      BY <1>1, <1>6, <1>12
    <3> QED BY <3>2, <3>3
  <2>3. ~(request > 0 /\ ~again /\ folded /\ ~cut)
    BY <1>10, <1>12
  <2>4. step' > 0 => target' > 0
    BY <1>6, <1>8
  <2>5. step' > 1 => Size(new) > target'
    BY <1>1, <1>6, <1>11
  <2>6. Stated(new) /\ (request > 0 /\ ~again /\ ~folded => Asking(new, request))
    BY <1>9, <2>1 DEF Holds
  <2> QED BY <1>3, <2>2, <2>3, <2>4, <2>5, <2>6 DEF Kept
<1>13. CASE step \in 8..9
  <2>1. /\ Fold(messages, new)
        /\ step = 9 /\ ~AtTarget(messages, target) => Len(new) <= 2
        /\ step = 9 /\ Len(messages) <= 2 => new = messages
    BY <1>1, <1>2, <1>8, <1>13, AppliedFolds
  <2> HIDE DEF new
  <2>2. Stated(new) /\ (cut' <=> cut)
    <3>1. step # 10
      BY <1>13
    <3>2. cut' <=> cut
      BY <1>5, <3>1
    <3> QED BY <2>1, <3>2 DEF Fold
  <2>3. step' > 0 => target' > 0
    BY <1>6, <1>8
  <2>4. step' > 1 => Size(new) > target'
    BY <1>1, <1>6, <1>11
  <2>5. step' = 10 => Len(new) <= 2
    <3> SUFFICES ASSUME step' = 10 PROVE Len(new) <= 2
      OBVIOUS
    <3>1. step = 9
      BY <1>1, <1>6
    <3>2. ~AtTarget(messages, target)
      BY <1>1, <1>8, <1>11, <3>1 DEF AtTarget
    <3> QED BY <2>1, <3>1, <3>2
  <2>6. request > 0 /\ ~again /\ ~folded' => Asking(new, request)
    <3> SUFFICES ASSUME request > 0, ~again, ~folded' PROVE Asking(new, request)
      OBVIOUS
    <3>1. ~folded /\ new = messages
      BY <1>5, <1>13
    <3> QED BY <1>9, <3>1
  <2>7. ASSUME request > 0, ~again, folded', ~cut
        PROVE  /\ request \in Carried(new)
               /\ step' > 0 => step' >= 9 /\ Len(new) <= 2 /\ Marked(Last(new).text, request)
    <3>1. CASE folded
      <4>1. step = 9 /\ new = messages
        BY <1>10, <1>13, <2>1, <2>7, <3>1
      <4> QED BY <1>6, <1>10, <2>7, <3>1, <4>1
    <3>2. CASE ~folded
      <4>1. new # messages
        BY <1>5, <2>7, <3>2
      <4>2. Marked(Last(new).text, request) /\ Len(new) <= 2
        BY <1>9, <2>1, <2>7, <3>2, <4>1 DEF Fold
      <4>3. request \in 1..MaxRequests
        BY <1>1, <2>7
      <4>4. request \in Carried(new)
        BY <1>11, <4>2, <4>3, LastCarries DEF Marked, Contains
      <4>5. step' > 0 => step' >= 9
        BY <1>6, <1>13
      <4> QED BY <4>2, <4>4, <4>5
    <3> QED BY <3>1, <3>2
  <2> QED BY <1>3, <2>2, <2>3, <2>4, <2>5, <2>6, <2>7 DEF Kept
<1>14. CASE step = 10
  <2>0. Spares(messages, new)
    <3>1. new = Applied(Pipeline[10], messages, target, summary, plan)
      BY <1>14
    <3>2. Stated(messages) /\ Len(messages) <= 2 /\ target \in Int /\ Answerable(messages)
      BY <1>1, <1>2, <1>8, <1>14
    <3> HIDE DEF new
    <3> QED BY <3>1, <3>2, AppliedCuts
  <2> HIDE DEF new
  <2>1. Stated(new) /\ \A r : Asking(messages, r) => new = messages
    BY <2>0 DEF Spares
  <2>2. step' = 0 /\ (folded' <=> folded)
    <3>1. step \notin {8, 9}
      BY <1>14
    <3>2. folded' <=> folded
      BY <1>5, <3>1
    <3>3. step' = 0
      BY <1>6, <1>14
    <3> QED BY <3>2, <3>3
  <2>3. request > 0 /\ ~again /\ ~folded => Asking(new, request)
    BY <1>9, <2>1
  <2>4. ASSUME request > 0, ~again, folded, ~cut' PROVE request \in Carried(new)
    <3>1. ~cut /\ (new = messages \/ Contains(Last(new).text, Task))
      BY <1>5, <1>14, <2>4
    <3>2. request \in Carried(messages) /\ Marked(Last(messages).text, request)
      BY <1>10, <2>4, <3>1
    <3>3. CASE new = messages
      BY <3>2, <3>3
    <3>4. CASE new # messages
      <4>1. request \in 1..MaxRequests /\ request # Task
        BY <1>1, <2>4 DEF Task
      <4>2. Contains(Last(new).text, request)
        BY <2>0, <3>1, <3>2, <3>4, <4>1 DEF Spares
      <4> QED BY <1>11, <4>1, <4>2, LastCarries
    <3> QED BY <3>3, <3>4
  <2> QED BY <1>3, <2>1, <2>2, <2>3, <2>4 DEF Kept
<1> QED BY <1>1, <1>12, <1>13, <1>14

LEMMA KeptInductive ==
  ASSUME Counters, Sound, Kept, [Next]_vars
  PROVE  Kept'
<1>1. CASE \E kind \in {"real", "redirect"}, size \in RequestSizes : Ask(kind, size)
  BY <1>1, AskKept
<1>2. CASE \E reasoning \in 0..1 : Reply(reasoning)
  BY <1>2, ReplyKept
<1>3. CASE \E message \in Feedbacks : Feedback(message)
  BY <1>3, FeedbackKept
<1>4. CASE AttachSummary
  BY <1>4, AttachKept
<1>5. CASE Gate
  <2> DEFINE size == Size(messages)
             goal == CompressionTarget(size, 2 * size - Window, 2 * size, size)
  <2>1. size \in Nat
    BY SizeType DEF Sound
  <2>2. 2 * size > Window /\ Begin(goal)
    BY <1>5 DEF Gate
  <2> HIDE DEF size
  <2>3. 2 * size \in Nat /\ 2 * size > 0 /\ 2 * size - Window \in Int
    BY <2>1, <2>2, Constants
  <2>4. goal \in Int /\ goal >= 1
    <3>1. goal \in Int
      BY <2>1, <2>3, TargetType
    <3>2. goal >= 1
      BY <2>1, <2>3, TargetType
    <3> QED BY <3>1, <3>2
  <2> HIDE DEF goal
  <2> QED BY <2>2, <2>4, BeginKept
<1>6. CASE \E told \in BOOLEAN : Overflow(told)
  <2>1. PICK told \in BOOLEAN : Overflow(told)
    BY <1>6
  <2> DEFINE size == Size(messages)
             tokens == IF told THEN size ELSE -1
             goal == CompressionTarget(size, 30, 100, tokens)
  <2>2. size \in Nat
    BY SizeType DEF Sound
  <2>3. Begin(goal)
    BY <2>1 DEF Overflow
  <2> HIDE DEF size
  <2>4. tokens \in Int
    BY <2>2
  <2> HIDE DEF tokens
  <2>5. goal \in Int /\ goal >= 1
    BY <2>2, <2>4, TargetType
  <2> HIDE DEF goal
  <2> QED BY <2>3, <2>5, BeginKept
<1>7. CASE \E summary \in {0, 2}, plan \in 0..1 : RunStep(summary, plan)
  <2>1. PICK summary \in Nat, plan \in Nat : RunStep(summary, plan)
    BY <1>7
  <2> QED BY <2>1, RunStepKept
<1>8. CASE UNCHANGED vars
  BY <1>8 DEF vars, Kept
<1> QED BY <1>1, <1>2, <1>3, <1>4, <1>5, <1>6, <1>7, <1>8 DEF Next

LEMMA InitKept == Init => Kept
<1> SUFFICES ASSUME Init PROVE Kept
  OBVIOUS
<1> DEFINE m == Said("system", "plain", <<Other>>)
<1>1. m.role = "system" /\ Plain(m)
  BY DEF Said, Plain
<1>2. ~Asked(m) /\ Quiet(m)
  BY <1>1 DEF Asked, Quiet
<1> HIDE DEF m
<1>3. messages = <<m>> /\ step = 0 /\ request = 0
  BY DEF Init, m
<1>4. Len(messages) = 1 /\ messages[1] = m
  BY <1>3
<1>5. Stated(messages)
  BY <1>1, <1>2, <1>4 DEF Stated
<1> QED BY <1>3, <1>5 DEF Kept

LEMMA KeptAlways == Spec => [](Counters /\ Sound /\ Kept)
<1>1. Counters /\ Sound /\ Kept /\ [Next]_vars => (Counters /\ Sound /\ Kept)'
  BY SoundInductive, KeptInductive
<1> QED BY <1>1, InitSound, InitKept, PTL DEF Spec

\* Whatever steps a turn's first compression takes, the request being worked
\* on is still there, unless the last resort has cut into its task section.
THEOREM RequestIsKept == Spec => []RequestKept
<1>1. Counters /\ Sound /\ Kept => RequestKept
  <2> SUFFICES ASSUME Counters, Sound, Kept, request > 0, ~again, ~cut
               PROVE  request \in Carried(messages)
    BY DEF RequestKept
  <2>1. request \in 1..MaxRequests /\ messages \in Seq(Message)
    BY DEF Counters, Sound
  <2>2. CASE folded
    BY <2>2 DEF Kept
  <2>3. CASE ~folded
    <3>1. Asking(messages, request)
      BY <2>3 DEF Kept
    <3> QED BY <2>1, <3>1, AskingCarries
  <2> QED BY <2>2, <2>3
<1> QED BY <1>1, KeptAlways, PTL

\* Dropping reasoning, turns and blocks loses no request of any turn and
\* leaves the message to be answered as it was.
THEOREM StepsKeep == Spec => StepsKeepRequests
<1> DEFINE A == 3 <= step /\ step <= 7 => /\ Carried(messages) \subseteq Carried(messages')
                                        /\ Last(messages') = Last(messages)
<1>1. Counters /\ Sound /\ Kept /\ [Next]_vars => [A]_vars
  <2> SUFFICES ASSUME Counters, Sound, Kept, Next, 3 <= step, step <= 7
               PROVE  /\ Carried(messages) \subseteq Carried(messages')
                      /\ Last(messages') = Last(messages)
    OBVIOUS
  <2>1. step \in 3..7 /\ step # 0 /\ target \in Int
    BY DEF Counters
  <2>2. PICK summary \in Nat, plan \in Nat : RunStep(summary, plan)
    <3>1. \A kind, size : ~Ask(kind, size)
      BY <2>1 DEF Ask, Idle
    <3>2. \A reasoning : ~Reply(reasoning)
      BY <2>1 DEF Reply, Idle
    <3>3. \A message : ~Feedback(message)
      BY <2>1 DEF Feedback, Idle
    <3>4. ~AttachSummary
      BY <2>1 DEF AttachSummary, Idle
    <3>5. \A goal : ~Begin(goal)
      BY <2>1 DEF Begin
    <3>6. ~Gate /\ \A told : ~Overflow(told)
      BY <3>5 DEF Gate, Overflow
    <3>7. \E summary \in {0, 2}, plan \in 0..1 : RunStep(summary, plan)
      BY <3>1, <3>2, <3>3, <3>4, <3>6 DEF Next
    <3> QED BY <3>7
  <2> DEFINE new == Applied(Pipeline[step], messages, target, summary, plan)
  <2>3. messages' = new
    BY <2>2 DEF RunStep
  <2>4. Answerable(messages) /\ Stated(messages)
    BY <2>1 DEF Sound, Answerable, Kept
  <2>5. step \in 1..7 /\ step >= 3
    BY <2>1
  <2>6. ~Loses(messages, new) /\ Last(new) = Last(messages)
    <3>1. target \in Int
      BY <2>1
    <3>2. ASSUME NEW k \in 1..7, NEW b, b = Applied(Pipeline[k], messages, target, summary, plan)
          PROVE  k >= 3 => ~Loses(messages, b) /\ Last(b) = Last(messages)
      BY <2>4, <3>1, <3>2, AppliedHolds
    <3>3. step >= 3 => ~Loses(messages, new) /\ Last(new) = Last(messages)
      <4> HIDE DEF new
      <4>1. new = Applied(Pipeline[step], messages, target, summary, plan)
        BY DEF new
      <4> QED BY <2>5, <3>2, <4>1
    <3> QED BY <2>5, <3>3
  <2> QED BY <2>3, <2>6 DEF Loses
<1> QED BY <1>1, KeptAlways, PTL DEF Spec, StepsKeepRequests

=============================================================================
