--------------------------- MODULE SessionsProofs ---------------------------
(***************************************************************************)
(* Proofs about the files of sessions: that the name of a session leads to *)
(* what was saved under it, and that what was saved last is offered to     *)
(* every agent, for any agents, sessions, turns, rotations and faults.     *)
(***************************************************************************)
EXTENDS Sessions, FiniteSetTheorems, WellFoundedInduction, TLAPS

-----------------------------------------------------------------------------
(* Induction over the numbers, and over the lists                          *)

LEMMA LeastNumber ==
  ASSUME NEW S \in SUBSET Nat, S # {}
  PROVE  \E m \in S : \A k \in S : m <= k
<1> DEFINE Lt == {p \in Nat \X Nat : p[1] < p[2]}
<1>1. IsWellFoundedOn(Lt, Nat)
  BY NatLessThanWellFounded DEF OpToRel
<1>2. \A x, y \in Nat : <<y, x>> \in Lt <=> y < x
  OBVIOUS
<1> HIDE DEF Lt
<1>3. PICK x \in S : \A y \in S : ~ (<<y, x>> \in Lt)
  BY <1>1, WFMin
<1>4. x \in Nat /\ \A y \in S : y \in Nat /\ ~(y < x)
  BY <1>2, <1>3
<1> QED BY <1>3, <1>4

LEMMA EveryNumber ==
  ASSUME NEW S, 0 \in S, \A k \in Nat : k \in S => k + 1 \in S
  PROVE  \A k \in Nat : k \in S
<1> DEFINE Bad == {k \in Nat : k \notin S}
<1> SUFFICES ASSUME Bad # {} PROVE FALSE
  OBVIOUS
<1>1. Bad \in SUBSET Nat /\ \A k \in Nat : k \in Bad <=> k \notin S
  OBVIOUS
<1> HIDE DEF Bad
<1>2. PICK m \in Bad : \A k \in Bad : m <= k
  BY <1>1, LeastNumber
<1>3. m \in Nat /\ m # 0
  BY <1>1
<1>4. m - 1 \in Nat /\ ~(m <= m - 1) /\ (m - 1) + 1 = m
  BY <1>3
<1>5. m - 1 \in S
  BY <1>1, <1>2, <1>4
<1> QED BY <1>1, <1>4, <1>5

\* What holds of the empty list, and of a list with one more at its end, holds
\* of every list.
LEMMA EveryList ==
  ASSUME NEW E, NEW S, <<>> \in S,
         \A s \in Seq(E), e \in E : s \in S => Append(s, e) \in S
  PROVE  \A s \in Seq(E) : s \in S
<1> DEFINE N == {k \in Nat : \A s \in Seq(E) : Len(s) = k => s \in S}
<1>1. 0 \in N
  <2>1. \A s \in Seq(E) : Len(s) = 0 => s = <<>>
    OBVIOUS
  <2> QED BY <2>1
<1>2. ASSUME NEW k \in Nat, k \in N PROVE k + 1 \in N
  <2> SUFFICES ASSUME NEW s \in Seq(E), Len(s) = k + 1 PROVE s \in S
    OBVIOUS
  <2> DEFINE t == [i \in 1 .. k |-> s[i]]
  <2>1. t \in Seq(E) /\ Len(t) = k /\ s[k + 1] \in E
    OBVIOUS
  <2>2. s = Append(t, s[k + 1])
    OBVIOUS
  <2>3. t \in S
    BY <1>2, <2>1
  <2> QED BY <2>1, <2>2, <2>3
<1> HIDE DEF N
<1>3. \A k \in Nat : k \in N
  BY <1>1, <1>2, EveryNumber
<1> QED BY <1>3 DEF N

-----------------------------------------------------------------------------
(* What Only returns                                                       *)

\* The walk that Only makes over the first n of a list.
IsWalk(f, A, c, n) ==
  f = [i \in 0 .. n |-> IF i = 0 THEN <<>>
                        ELSE IF c[i] \in A THEN Append(f[i - 1], c[i]) ELSE f[i - 1]]

LEMMA WalkExists ==
  ASSUME NEW A, NEW c
  PROVE  \A n \in Nat : \E f : IsWalk(f, A, c, n)
<1> DEFINE S == {n \in Nat : \E f : IsWalk(f, A, c, n)}
<1>1. 0 \in S
  <2>1. IsWalk([i \in 0 .. 0 |-> <<>>], A, c, 0)
    BY DEF IsWalk
  <2> QED BY <2>1
<1>2. ASSUME NEW k \in Nat, k \in S PROVE k + 1 \in S
  <2>1. PICK f : IsWalk(f, A, c, k)
    BY <1>2
  <2> DEFINE g == [i \in 0 .. (k + 1) |->
                     IF i = k + 1 THEN IF c[k + 1] \in A THEN Append(f[k], c[k + 1]) ELSE f[k]
                     ELSE f[i]]
  <2>2. \A i \in 0 .. k : f[i] = IF i = 0 THEN <<>>
                                 ELSE IF c[i] \in A THEN Append(f[i - 1], c[i]) ELSE f[i - 1]
    BY <2>1 DEF IsWalk
  <2>3. \A i \in 0 .. (k + 1) : g[i] = IF i = 0 THEN <<>>
                                       ELSE IF c[i] \in A THEN Append(g[i - 1], c[i]) ELSE g[i - 1]
    BY <2>2
  <2>4. g = [i \in 0 .. (k + 1) |-> g[i]]
    OBVIOUS
  <2>5. IsWalk(g, A, c, k + 1)
    <3> HIDE DEF g
    <3> QED BY <2>3, <2>4 DEF IsWalk
  <2> QED BY <2>5
<1> HIDE DEF S
<1>3. \A k \in Nat : k \in S
  BY <1>1, <1>2, EveryNumber
<1> QED BY <1>3 DEF S

LEMMA OnlyWalk ==
  ASSUME NEW A, NEW E, NEW c \in Seq(E)
  PROVE  \E f : /\ Only(A, c) = f[Len(c)]
                /\ \A i \in 0 .. Len(c) :
                     f[i] = IF i = 0 THEN <<>>
                            ELSE IF c[i] \in A THEN Append(f[i - 1], c[i]) ELSE f[i - 1]
<1>1. \E f : IsWalk(f, A, c, Len(c))
  <2>1. Len(c) \in Nat
    OBVIOUS
  <2> QED BY <2>1, WalkExists
<1>2. IsWalk(CHOOSE f : IsWalk(f, A, c, Len(c)), A, c, Len(c))
  BY <1>1
<1>3. Only(A, c) = (CHOOSE f : IsWalk(f, A, c, Len(c)))[Len(c)]
  BY DEF Only, IsWalk
<1>4. PICK g : IsWalk(g, A, c, Len(c)) /\ Only(A, c) = g[Len(c)]
  BY <1>2, <1>3
<1> QED BY <1>4 DEF IsWalk

LEMMA OnlyEmpty ==
  ASSUME NEW A
  PROVE  Only(A, <<>>) = <<>>
<1>1. ASSUME NEW c \in Seq({}), Len(c) = 0 PROVE Only(A, c) = <<>>
  <2>1. PICK f : /\ Only(A, c) = f[Len(c)]
                 /\ \A i \in 0 .. Len(c) :
                      f[i] = IF i = 0 THEN <<>>
                             ELSE IF c[i] \in A THEN Append(f[i - 1], c[i]) ELSE f[i - 1]
    BY OnlyWalk
  <2> QED BY <1>1, <2>1
<1>2. <<>> \in Seq({}) /\ Len(<<>>) = 0
  OBVIOUS
<1> QED BY <1>1, <1>2

LEMMA OnlyAppend ==
  ASSUME NEW A, NEW E, NEW c \in Seq(E), NEW e \in E
  PROVE  Only(A, Append(c, e)) = IF e \in A THEN Append(Only(A, c), e) ELSE Only(A, c)
<1> DEFINE d == Append(c, e)
<1>1. /\ d \in Seq(E) /\ Len(c) \in Nat /\ Len(d) = Len(c) + 1 /\ d[Len(c) + 1] = e
      /\ \A i \in 1 .. Len(c) : d[i] = c[i]
  OBVIOUS
<1> HIDE DEF d
<1>2. PICK f : /\ Only(A, c) = f[Len(c)]
               /\ \A i \in 0 .. Len(c) :
                    f[i] = IF i = 0 THEN <<>>
                           ELSE IF c[i] \in A THEN Append(f[i - 1], c[i]) ELSE f[i - 1]
  BY OnlyWalk
<1>3. PICK g : /\ Only(A, d) = g[Len(d)]
               /\ \A i \in 0 .. Len(d) :
                    g[i] = IF i = 0 THEN <<>>
                           ELSE IF d[i] \in A THEN Append(g[i - 1], d[i]) ELSE g[i - 1]
  BY <1>1, OnlyWalk
<1> DEFINE S == {k \in Nat : k <= Len(c) => f[k] = g[k]}
<1>4. 0 \in S
  BY <1>1, <1>2, <1>3
<1>5. ASSUME NEW k \in Nat, k \in S PROVE k + 1 \in S
  <2> SUFFICES ASSUME k + 1 <= Len(c) PROVE f[k + 1] = g[k + 1]
    OBVIOUS
  <2>1. /\ k + 1 \in 0 .. Len(c) /\ k + 1 \in 0 .. Len(d) /\ k + 1 \in 1 .. Len(c)
        /\ k + 1 # 0 /\ (k + 1) - 1 = k /\ k <= Len(c)
    BY <1>1
  <2>2. f[k] = g[k] /\ d[k + 1] = c[k + 1]
    BY <1>1, <1>5, <2>1
  <2>3. f[k + 1] = IF c[k + 1] \in A THEN Append(f[k], c[k + 1]) ELSE f[k]
    BY <1>2, <2>1
  <2>4. g[k + 1] = IF d[k + 1] \in A THEN Append(g[k], d[k + 1]) ELSE g[k]
    BY <1>3, <2>1
  <2> QED BY <2>2, <2>3, <2>4
<1> HIDE DEF S
<1>6. Len(c) \in S
  BY <1>1, <1>4, <1>5, EveryNumber
<1>7. f[Len(c)] = g[Len(c)]
  BY <1>1, <1>6 DEF S
<1>8. Len(c) + 1 \in 0 .. Len(d) /\ Len(c) + 1 # 0 /\ (Len(c) + 1) - 1 = Len(c)
  BY <1>1
<1>9. g[Len(c) + 1] = IF e \in A THEN Append(g[Len(c)], e) ELSE g[Len(c)]
  BY <1>1, <1>3, <1>8
<1> QED BY <1>1, <1>2, <1>3, <1>7, <1>9 DEF d

-----------------------------------------------------------------------------
(* The elements of lists, and lists of images                              *)

Image(m, list) == [n \in DOMAIN list |-> m[list[n]]]

LEMMA Elements ==
  ASSUME NEW E
  PROVE  /\ ToSet(<<>>) = {}
         /\ \A s \in Seq(E) : ToSet(s) \subseteq E
         /\ \A s \in Seq(E), e \in E : ToSet(Append(s, e)) = ToSet(s) \cup {e}
<1>1. ToSet(<<>>) = {}
  BY DEF ToSet
<1>2. \A s \in Seq(E) : ToSet(s) \subseteq E
  BY DEF ToSet
<1>3. ASSUME NEW s \in Seq(E), NEW e \in E PROVE ToSet(Append(s, e)) = ToSet(s) \cup {e}
  <2> DEFINE d == Append(s, e)
  <2>1. /\ DOMAIN d = 1 .. Len(s) + 1 /\ DOMAIN s = 1 .. Len(s) /\ Len(s) \in Nat
        /\ d[Len(s) + 1] = e /\ \A i \in 1 .. Len(s) : d[i] = s[i]
    OBVIOUS
  <2> HIDE DEF d
  <2>2. ToSet(d) = ToSet(s) \cup {e}
    BY <2>1 DEF ToSet
  <2> QED BY <2>2 DEF d
<1> QED BY <1>1, <1>2, <1>3

LEMMA ImageType ==
  ASSUME NEW E, NEW F, NEW m \in [E -> F], NEW s \in Seq(E)
  PROVE  Image(m, s) \in Seq(F) /\ Len(Image(m, s)) = Len(s)
BY DEF Image

\* Only keeps the elements of the set.
LEMMA OnlyElements ==
  ASSUME NEW A, NEW E
  PROVE  \A s \in Seq(E) : /\ Only(A, s) \in Seq(E)
                           /\ ToSet(Only(A, s)) = ToSet(s) \cap A
<1> DEFINE S == {s \in Seq(E) : /\ Only(A, s) \in Seq(E)
                                /\ ToSet(Only(A, s)) = ToSet(s) \cap A}
<1>1. <<>> \in S
  <2>1. <<>> \in Seq(E)
    OBVIOUS
  <2>2. ToSet(<<>>) = {} /\ Only(A, <<>>) = <<>>
    BY OnlyEmpty, Elements
  <2> HIDE DEF S
  <2>3. /\ Only(A, <<>>) \in Seq(E)
        /\ ToSet(Only(A, <<>>)) = ToSet(<<>>) \cap A
    BY <2>1, <2>2
  <2> QED BY <2>1, <2>3 DEF S
<1>2. ASSUME NEW s \in Seq(E), NEW e \in E, s \in S PROVE Append(s, e) \in S
  <2>1. Append(s, e) \in Seq(E)
    OBVIOUS
  <2>2. /\ Only(A, s) \in Seq(E) /\ ToSet(Only(A, s)) = ToSet(s) \cap A
    BY <1>2
  <2>3. Only(A, Append(s, e)) = IF e \in A THEN Append(Only(A, s), e) ELSE Only(A, s)
    BY OnlyAppend
  <2>4. /\ ToSet(Append(s, e)) = ToSet(s) \cup {e}
        /\ ToSet(Append(Only(A, s), e)) = ToSet(Only(A, s)) \cup {e}
    BY <2>2, Elements
  <2>5. Append(Only(A, s), e) \in Seq(E)
    BY <2>2
  <2>6. CASE e \in A
    BY <2>1, <2>2, <2>3, <2>4, <2>5, <2>6
  <2>7. CASE e \notin A
    BY <2>1, <2>2, <2>3, <2>4, <2>7
  <2> QED BY <2>6, <2>7
<1> HIDE DEF S
<1>3. \A s \in Seq(E) : s \in S
  BY <1>1, <1>2, EveryList
<1> QED BY <1>3 DEF S

\* What is put at the head of a list is added to its elements.
LEMMA ConsElements ==
  ASSUME NEW E, NEW f \in E, NEW s \in Seq(E)
  PROVE  <<f>> \o s \in Seq(E) /\ ToSet(<<f>> \o s) = ToSet(s) \cup {f}
<1> DEFINE d == <<f>> \o s
<1>1. /\ d \in Seq(E) /\ DOMAIN d = 1 .. Len(s) + 1 /\ DOMAIN s = 1 .. Len(s) /\ Len(s) \in Nat
      /\ d[1] = f /\ \A i \in 1 .. Len(s) : d[i + 1] = s[i]
  OBVIOUS
<1> HIDE DEF d
<1>2. \A i \in DOMAIN d : i = 1 \/ (i - 1 \in DOMAIN s /\ d[i] = s[i - 1])
  <2> SUFFICES ASSUME NEW i \in DOMAIN d, i # 1 PROVE i - 1 \in DOMAIN s /\ d[i] = s[i - 1]
    OBVIOUS
  <2>1. i - 1 \in 1 .. Len(s) /\ (i - 1) + 1 = i
    BY <1>1
  <2> QED BY <1>1, <2>1
<1>3. \A i \in DOMAIN s : i + 1 \in DOMAIN d /\ d[i + 1] = s[i]
  BY <1>1
<1>4. 1 \in DOMAIN d
  BY <1>1
<1>5. ToSet(d) = ToSet(s) \cup {f}
  BY <1>1, <1>2, <1>3, <1>4 DEF ToSet
<1> QED BY <1>1, <1>5 DEF d

-----------------------------------------------------------------------------
(* Types                                                                   *)

Turns == Sessions \X Nat
FileStates == [kind : {"none", "link", "empty", "file"}, turns : SUBSET Turns]
Status == {"none", "active", "kept", "archived"}
Registries == [Sessions -> Status]
Snaps == [made : BOOLEAN, paths : Seq(Files), newer : SUBSET Files, own : Files \cup {<<>>}]

Building == {"scan", "check", "stamp"}
Running == Building \cup {"running", "load"}

AgentsOK == /\ pc \in [Agents -> Running \cup {"new", "read", "ended"}]
            /\ ctx \in [Agents -> Files]
            /\ mem \in [Agents -> SUBSET Turns]
            /\ taken \in [Agents -> Nat]

\* Only a running agent has a snapshot, and it has none while it makes one.
SnapsOK == /\ snap \in [Agents -> Snaps]
           /\ found \in [Agents -> Seq(Files)]
           /\ missed \in [Agents -> SUBSET Sessions]
           /\ \A p \in Agents :
                /\ snap[p].made \/ pc[p] \in Building => snap[p].own \in Files
                /\ ~snap[p].made => snap[p].paths = <<>> /\ snap[p].newer = {}
                /\ pc[p] \in Building => ~snap[p].made
                /\ pc[p] = "load" => snap[p].made
                /\ pc[p] \notin Running => ~snap[p].made /\ snap[p].own = <<>>
                /\ pc[p] \notin {"check", "stamp"} => found[p] = <<>>

\* A process that runs has read the registry, and one that does not run has no
\* copy of it.
RegistryOK == /\ disk \in Registries
              /\ cache \in [Procs -> Registries \cup {Unread}]
              /\ \A p \in Agents : pc[p] \in Running \cup {"read"} => cache[p] \in Registries
              /\ \A p \in Agents : pc[p] \in {"new", "ended"} => cache[p] = Unread
              /\ rot.step # "idle" => cache[Dream] \in Registries

FilesOK == /\ at \in [Files -> FileStates]
           /\ order \in Seq(Files)

RotOK == /\ rot \in [step : {"idle", "pick", "moved", "record"}, s : Sessions \cup {""},
                     todo : SUBSET Sessions, ok : BOOLEAN]
         /\ rot.step = "idle" => rot = Idle
         /\ rot.step \in {"moved", "record"} => rot.s \in Sessions
         /\ rot.step = "moved" => ~rot.ok
         /\ rotations \in Nat /\ faults \in Nat

HistoryOK == /\ saved \in [Sessions -> SUBSET Turns]
             /\ writers \in [Sessions -> SUBSET Agents]
             /\ undone \in SUBSET Sessions
             /\ misled \in SUBSET Sessions

TypeOK == AgentsOK /\ SnapsOK /\ RegistryOK /\ FilesOK /\ RotOK /\ HistoryOK

LEMMA FileParts ==
  /\ \A s \in Sessions : <<"log", s>> \in Files /\ <<"arch", s>> \in Files
  /\ \A f \in Files : /\ f[1] \in {"log", "arch"} /\ f[2] \in Sessions
                      /\ f = <<"log", f[2]>> \/ f = <<"arch", f[2]>>
                      /\ f[1] = "log" => f = <<"log", f[2]>>
                      /\ f[1] = "arch" => f = <<"arch", f[2]>>
  /\ \A s, t : <<"log", s>> # <<"arch", t>>
BY DEF Files

LEMMA ProcParts ==
  /\ Dream \in Procs /\ Dream \notin Agents
  /\ \A p \in Agents : p \in Procs /\ p \in Sessions /\ p # Dream /\ p \notin Old
  /\ \A q \in Procs : q = Dream \/ q \in Agents
  /\ \A s \in Sessions : s \in Old \/ s \in Agents
BY SessionsAssumption DEF Procs, Dream, Sessions

LEMMA ResolveType ==
  ASSUME NEW f \in Files
  PROVE  /\ Resolve(f) \in Files /\ Resolve(f)[2] = f[2]
         /\ Resolve(f) = f \/ Resolve(f) = <<"arch", f[2]>>
BY FileParts DEF Resolve

LEMMA EntryType ==
  ASSUME NEW q, NEW s \in Sessions
  PROVE  /\ Entry(q, s) \in Files /\ Entry(q, s)[2] = s
         /\ Entry(q, s) = <<"arch", s>> <=> cache[q][s] = "archived"
         /\ Entry(q, s) = <<"log", s>> <=> cache[q][s] # "archived"
BY FileParts DEF Entry

\* What is offered is a file, and no link.
LEMMA OfferedFiles ==
  ASSUME NEW p, NEW f \in Offered(p)
  PROVE  /\ f \in Files /\ at[f].kind = "file"
         /\ \/ cache[p][f[2]] # "none" /\ f = Resolve(Entry(p, f[2]))
            \/ f = Resolve(<<"log", f[2]>>)
<1>1. PICK g \in {Entry(p, s) : s \in {t \in Sessions : cache[p][t] # "none"}}
                 \cup ({"log"} \X Sessions) : Readable(g) /\ f = Resolve(g)
  BY DEF Offered
<1>2. CASE g \in {"log"} \X Sessions
  <2>1. PICK s \in Sessions : g = <<"log", s>>
    BY <1>2
  <2> QED BY <1>1, <2>1, FileParts, ResolveType DEF Readable
<1>3. CASE g \in {Entry(p, s) : s \in {t \in Sessions : cache[p][t] # "none"}}
  <2>1. PICK s \in Sessions : cache[p][s] # "none" /\ g = Entry(p, s)
    BY <1>3
  <2>2. g \in Files /\ g[2] = s
    BY <2>1, EntryType
  <2>3. f \in Files /\ f[2] = s
    BY <1>1, <2>2, ResolveType
  <2> QED BY <1>1, <2>1, <2>2, <2>3 DEF Readable
<1> QED BY <1>1, <1>2, <1>3

\* The path under which a file is offered leads to it.
LEMMA PathLeads ==
  ASSUME NEW p, NEW f \in Offered(p)
  PROVE  /\ PathOf(p, f) \in Files /\ PathOf(p, f)[2] = f[2]
         /\ Resolve(PathOf(p, f)) = f
         /\ PathOf(p, f) = <<"arch", f[2]>> => cache[p][f[2]] = "archived"
<1>1. /\ f \in Files /\ f[2] \in Sessions
      /\ \/ cache[p][f[2]] # "none" /\ f = Resolve(Entry(p, f[2]))
         \/ f = Resolve(<<"log", f[2]>>)
  BY OfferedFiles, FileParts
<1>2. CASE cache[p][f[2]] # "none" /\ Resolve(Entry(p, f[2])) = f
  <2>1. PathOf(p, f) = Entry(p, f[2])
    BY <1>2 DEF PathOf
  <2> QED BY <1>1, <1>2, <2>1, EntryType
<1>3. CASE ~(cache[p][f[2]] # "none" /\ Resolve(Entry(p, f[2])) = f)
  <2>1. PathOf(p, f) = <<"log", f[2]>>
    BY <1>3 DEF PathOf
  <2> QED BY <1>1, <1>3, <2>1, FileParts
<1> QED BY <1>2, <1>3

LEMMA ValidType ==
  ASSUME TypeOK, NEW p \in Agents
  PROVE  /\ Own(p) \in Files
         /\ Valid(p) \in Seq(Files)
         /\ ToSet(Valid(p)) \subseteq Offered(p)
         /\ Valid(p) = Only(Offered(p) \ {Resolve(Own(p))}, order)
<1>1. Own(p) \in Files
  BY DEF TypeOK, AgentsOK, SnapsOK, Snaps, Own
<1>2. order \in Seq(Files)
  BY DEF TypeOK, FilesOK
<1>3. Valid(p) = Only(Offered(p) \ {Resolve(Own(p))}, order)
  BY DEF Valid, NewestFirst
<1>4. /\ Valid(p) \in Seq(Files)
      /\ ToSet(Valid(p)) = ToSet(order) \cap (Offered(p) \ {Resolve(Own(p))})
  BY <1>2, <1>3, OnlyElements
<1> QED BY <1>1, <1>3, <1>4

LEMMA FileKinds ==
  /\ Absent \in FileStates /\ Link \in FileStates /\ Placeholder \in FileStates
  /\ \A turns \in SUBSET Turns : Context(turns) \in FileStates
  /\ Absent.kind = "none" /\ Link.kind = "link" /\ Placeholder.kind = "empty"
  /\ \A turns : Context(turns).kind = "file" /\ Context(turns).turns = turns
BY DEF Absent, Link, Placeholder, Context, FileStates

LEMMA RegistryType ==
  ASSUME TypeOK, NEW files
  PROVE  Registry(files) \in Registries
BY DEF TypeOK, RegistryOK, Registry, Registries, Status

LEMMA WriteType ==
  ASSUME FilesOK, NEW f \in Files, NEW what \in FileStates, Write(f, what)
  PROVE  /\ FilesOK'
         /\ \A g \in Files : at'[g] = IF g = f THEN what ELSE at[g]
<1>1. at' \in [Files -> FileStates] /\ \A g \in Files : at'[g] = IF g = f THEN what ELSE at[g]
  BY DEF Write, FilesOK
<1>2. Only(Files \ {f}, order) \in Seq(Files)
  BY OnlyElements DEF FilesOK
<1>3. order' \in Seq(Files)
  BY <1>2, ConsElements DEF Write
<1> QED BY <1>1, <1>3 DEF FilesOK

\* A renaming, in terms of the list: the name is taken away, and given to the
\* file that had the other one.
Renamed(f, g) == [h \in Files |-> IF h = f THEN g ELSE h]

LEMMA RenameType ==
  ASSUME FilesOK, NEW f \in Files, NEW g \in Files, f # g, Rename(f, g)
  PROVE  /\ FilesOK'
         /\ \A h \in Files : at'[h] = IF h = g THEN at[f] ELSE IF h = f THEN Absent ELSE at[h]
         /\ order' = Image(Renamed(f, g), Only(Files \ {g}, order))
<1> DEFINE kept == Only(Files \ {g}, order)
<1>1. kept \in Seq(Files)
  BY OnlyElements DEF FilesOK
<1>2. order' = [k \in DOMAIN kept |-> IF kept[k] = f THEN g ELSE kept[k]]
  BY DEF Rename
<1>3. \A k \in DOMAIN kept : kept[k] \in Files
  BY <1>1
<1> HIDE DEF kept
<1>4. order' = Image(Renamed(f, g), kept)
  BY <1>2, <1>3 DEF Image, Renamed
<1>5. Renamed(f, g) \in [Files -> Files]
  BY DEF Renamed
<1>6. order' \in Seq(Files)
  BY <1>1, <1>4, <1>5, ImageType
<1>7. /\ at' \in [Files -> FileStates]
      /\ \A h \in Files : at'[h] = IF h = g THEN at[f] ELSE IF h = f THEN Absent ELSE at[h]
  BY FileKinds DEF Rename, FilesOK
<1> QED BY <1>4, <1>6, <1>7 DEF FilesOK, kept

\* The times of a snapshot's files change, and nothing else of it.
LEMMA DatedType ==
  ASSUME snap \in [Agents -> Snaps], NEW f \in Files
  PROVE  /\ Dated(f) \in [Agents -> Snaps]
         /\ \A p \in Agents : /\ Dated(f)[p].made = snap[p].made
                              /\ Dated(f)[p].paths = snap[p].paths
                              /\ Dated(f)[p].own = snap[p].own
                              /\ Dated(f)[p].newer = IF snap[p].made THEN snap[p].newer \cup {f}
                                                     ELSE snap[p].newer
<1>1. ASSUME NEW p \in Agents
      PROVE  /\ Dated(f)[p] \in Snaps
             /\ Dated(f)[p].made = snap[p].made
             /\ Dated(f)[p].paths = snap[p].paths
             /\ Dated(f)[p].own = snap[p].own
             /\ Dated(f)[p].newer = IF snap[p].made THEN snap[p].newer \cup {f} ELSE snap[p].newer
  <2>1. snap[p] \in Snaps
    OBVIOUS
  <2>2. Dated(f)[p] = IF snap[p].made THEN [snap[p] EXCEPT !.newer = snap[p].newer \cup {f}]
                      ELSE snap[p]
    BY DEF Dated
  <2>3. CASE snap[p].made
    <3>1. Dated(f)[p] = [snap[p] EXCEPT !.newer = snap[p].newer \cup {f}]
      BY <2>2, <2>3
    <3>2. snap[p].newer \cup {f} \in SUBSET Files
      BY <2>1 DEF Snaps
    <3> QED BY <2>1, <2>3, <3>1, <3>2 DEF Snaps
  <2> QED BY <2>1, <2>2, <2>3
<1>2. Dated(f) \in [Agents -> Snaps]
  <2>1. Dated(f) = [p \in Agents |-> Dated(f)[p]]
    BY DEF Dated
  <2> QED BY <1>1, <2>1
<1> QED BY <1>1, <1>2

LEMMA RedatedType ==
  ASSUME snap \in [Agents -> Snaps], NEW f \in Files, NEW g \in Files
  PROVE  /\ Redated(f, g) \in [Agents -> Snaps]
         /\ \A p \in Agents :
              /\ Redated(f, g)[p].made = snap[p].made
              /\ Redated(f, g)[p].paths = snap[p].paths
              /\ Redated(f, g)[p].own = snap[p].own
              /\ Redated(f, g)[p].newer = IF f \in snap[p].newer THEN (snap[p].newer \ {f}) \cup {g}
                                          ELSE snap[p].newer \ {g}
<1>1. ASSUME NEW p \in Agents
      PROVE  /\ Redated(f, g)[p] \in Snaps
             /\ Redated(f, g)[p].made = snap[p].made
             /\ Redated(f, g)[p].paths = snap[p].paths
             /\ Redated(f, g)[p].own = snap[p].own
             /\ Redated(f, g)[p].newer = IF f \in snap[p].newer THEN (snap[p].newer \ {f}) \cup {g}
                                         ELSE snap[p].newer \ {g}
  <2> DEFINE n == IF f \in snap[p].newer THEN (snap[p].newer \ {f}) \cup {g}
                  ELSE snap[p].newer \ {g}
  <2>1. snap[p] \in Snaps
    OBVIOUS
  <2>2. Redated(f, g)[p] = [snap[p] EXCEPT !.newer = n]
    BY DEF Redated
  <2>3. n \in SUBSET Files
    BY <2>1 DEF Snaps
  <2> HIDE DEF n
  <2>4. /\ Redated(f, g)[p] \in Snaps
        /\ Redated(f, g)[p].made = snap[p].made
        /\ Redated(f, g)[p].paths = snap[p].paths
        /\ Redated(f, g)[p].own = snap[p].own
        /\ Redated(f, g)[p].newer = n
    BY <2>1, <2>2, <2>3 DEF Snaps
  <2> QED BY <2>4 DEF n
<1>2. Redated(f, g) \in [Agents -> Snaps]
  <2>1. Redated(f, g) = [p \in Agents |-> Redated(f, g)[p]]
    BY DEF Redated
  <2> QED BY <1>1, <2>1
<1> QED BY <1>1, <1>2

LEMMA MissingType ==
  ASSUME missed \in [Agents -> SUBSET Sessions], NEW s \in Sessions
  PROVE  /\ Missing(s) \in [Agents -> SUBSET Sessions]
         /\ \A p \in Agents : Missing(s)[p] = IF pc[p] \in {"check", "stamp"} THEN missed[p] \cup {s}
                                              ELSE missed[p]
BY DEF Missing

\* A snapshot that is the same but for its times is one of the same type.
SameLists == \A p \in Agents : /\ snap'[p].made = snap[p].made
                               /\ snap'[p].paths = snap[p].paths
                               /\ snap'[p].own = snap[p].own
                               /\ ~snap[p].made => snap'[p].newer = {}

LEMMA KeepSnaps ==
  ASSUME TypeOK, SameLists, snap' \in [Agents -> Snaps], found' = found,
         missed' \in [Agents -> SUBSET Sessions],
         \A p \in Agents : \/ pc'[p] = pc[p]
                           \/ pc[p] \notin Running /\ pc'[p] = "read"
                           \/ pc[p] \in {"read", "running"} /\ pc'[p] = "running"
  PROVE  SnapsOK'
<1>1. ASSUME NEW p \in Agents
      PROVE  /\ snap'[p].made \/ pc'[p] \in Building => snap'[p].own \in Files
             /\ ~snap'[p].made => snap'[p].paths = <<>> /\ snap'[p].newer = {}
             /\ pc'[p] \in Building => ~snap'[p].made
             /\ pc'[p] = "load" => snap'[p].made
             /\ pc'[p] \notin Running => ~snap'[p].made /\ snap'[p].own = <<>>
             /\ pc'[p] \notin {"check", "stamp"} => found'[p] = <<>>
  <2>1. /\ snap'[p].made = snap[p].made /\ snap'[p].paths = snap[p].paths
        /\ snap'[p].own = snap[p].own
        /\ ~snap[p].made => snap'[p].newer = {}
    BY DEF SameLists
  <2>2. /\ snap[p].made \/ pc[p] \in Building => snap[p].own \in Files
        /\ ~snap[p].made => snap[p].paths = <<>> /\ snap[p].newer = {}
        /\ pc[p] \in Building => ~snap[p].made
        /\ pc[p] = "load" => snap[p].made
        /\ pc[p] \notin Running => ~snap[p].made /\ snap[p].own = <<>>
        /\ pc[p] \notin {"check", "stamp"} => found[p] = <<>>
    BY DEF TypeOK, SnapsOK
  <2>3. CASE pc'[p] = pc[p]
    BY <2>1, <2>2, <2>3
  <2>4. CASE pc[p] \notin Running /\ pc'[p] = "read"
    BY <2>1, <2>2, <2>4 DEF Building, Running
  <2>5. CASE pc[p] \in {"read", "running"} /\ pc'[p] = "running"
    BY <2>1, <2>2, <2>5 DEF Building, Running
  <2> QED BY <2>3, <2>4, <2>5
<1>2. found' \in [Agents -> Seq(Files)]
  BY DEF TypeOK, SnapsOK
<1> QED BY <1>1, <1>2 DEF SnapsOK

-----------------------------------------------------------------------------
(* Each action keeps the types                                             *)

LEMMA InitType ==
  ASSUME Init
  PROVE  TypeOK
<1>1. AgentsOK
  BY FileParts, ProcParts DEF Init, AgentsOK, Running, Building
<1>2. SnapsOK
  <2>1. /\ NoSnap \in Snaps /\ ~NoSnap.made /\ NoSnap.own = <<>> /\ NoSnap.paths = <<>>
        /\ NoSnap.newer = {} /\ <<>> \in Seq(Files)
    <3>1. <<>> \in Seq(Files)
      OBVIOUS
    <3> QED BY <3>1 DEF NoSnap, Snaps
  <2>2. "new" \notin Running
    BY DEF Running, Building
  <2>3. \A p \in Agents : pc[p] = "new" /\ snap[p] = NoSnap /\ found[p] = <<>> /\ missed[p] = {}
    BY DEF Init
  <2>4. snap \in [Agents -> Snaps] /\ found \in [Agents -> Seq(Files)]
        /\ missed \in [Agents -> SUBSET Sessions]
    BY <2>1 DEF Init
  <2> QED BY <2>1, <2>2, <2>3, <2>4 DEF SnapsOK, Running
<1>3. RegistryOK
  <2>1. disk \in Registries /\ rot.step = "idle"
    BY DEF Init, Registries, Status, Idle
  <2>2. \A q \in Procs : cache[q] = Unread
    BY DEF Init
  <2>3. \A p \in Agents : pc[p] = "new" /\ pc[p] \notin Running \cup {"read"}
    BY DEF Init, Running, Building
  <2> QED BY <2>1, <2>2, <2>3, ProcParts DEF Init, RegistryOK
<1>4. FilesOK
  <2>1. \A f \in Files : f[1] = "log" /\ f[2] \in Old => {<<f[2], 1>>} \in SUBSET Turns
    BY FileParts DEF Turns
  <2>2. at \in [Files -> FileStates]
    BY <2>1, FileKinds DEF Init
  <2>3. {"log"} \X Old \subseteq Files
    BY DEF Files, Sessions
  <2>4. order \in [1 .. Cardinality({"log"} \X Old) -> {"log"} \X Old]
    BY DEF Init, SetToSeqs
  <2>5. Cardinality({"log"} \X Old) \in Nat
    BY FS_Product, FS_Singleton, FS_CardinalityType, SessionsAssumption
  <2>6. \A n \in Nat : [1 .. n -> {"log"} \X Old] \subseteq Seq({"log"} \X Old)
    OBVIOUS
  <2>7. Seq({"log"} \X Old) \subseteq Seq(Files)
    BY <2>3
  <2>8. order \in Seq(Files)
    BY <2>4, <2>5, <2>6, <2>7
  <2> QED BY <2>2, <2>8 DEF FilesOK
<1>5. RotOK
  BY DEF Init, RotOK, Idle
<1>6. HistoryOK
  BY DEF Init, HistoryOK, Turns, Sessions
<1> QED BY <1>1, <1>2, <1>3, <1>4, <1>5, <1>6 DEF TypeOK

LEMMA StartType ==
  ASSUME TypeOK, NEW p \in Agents, Start(p)
  PROVE  /\ TypeOK' /\ SameLists
         /\ \A g \in Files : at'[g] = IF g = <<"log", p>> THEN Placeholder ELSE at[g]
         /\ cache' = [cache EXCEPT ![p] = disk']
         /\ \/ disk' = disk
            \/ /\ \A s \in Sessions : disk[s] = "none"
               /\ \A s \in Sessions : disk'[s] = IF at'[<<"log", s>>].kind # "none"
                                                 THEN "active" ELSE "none"
<1>1. /\ <<"log", p>> \in Files /\ p \in Procs /\ p # Dream /\ p \in Sessions
  BY FileParts, ProcParts
<1>2. FilesOK' /\ \A g \in Files : at'[g] = IF g = <<"log", p>> THEN Placeholder ELSE at[g]
  BY <1>1, FileKinds, WriteType DEF Start, TypeOK
<1>3. disk' \in Registries
  BY RegistryType DEF Start
<1>4. AgentsOK'
  BY DEF Start, TypeOK, AgentsOK
<1>5. snap' \in [Agents -> Snaps] /\ SameLists
  <2>1. snap \in [Agents -> Snaps] /\ \A q \in Agents : ~snap[q].made => snap[q].newer = {}
    BY DEF TypeOK, SnapsOK
  <2>2. snap' = Dated(<<"log", p>>)
    BY DEF Start
  <2> QED BY <1>1, <2>1, <2>2, DatedType DEF SameLists
<1>6. missed' \in [Agents -> SUBSET Sessions]
  BY <1>1, MissingType DEF Start, TypeOK, SnapsOK
<1>7. SnapsOK'
  <2>1. \A q \in Agents : pc'[q] = pc[q] \/ (pc[q] \notin Running /\ pc'[q] = "read")
    BY DEF Start, TypeOK, AgentsOK, Running, Building
  <2>2. found' = found
    BY DEF Start
  <2> QED BY <1>5, <1>6, <2>1, <2>2, KeepSnaps
<1>8. cache' = [cache EXCEPT ![p] = disk']
  BY DEF Start
<1>9. RegistryOK'
  <2>1. \A q \in Agents : pc'[q] = IF q = p THEN "read" ELSE pc[q]
    BY DEF Start, TypeOK, AgentsOK
  <2>2. \A q \in Procs : cache'[q] = IF q = p THEN disk' ELSE cache[q]
    BY <1>8 DEF TypeOK, RegistryOK
  <2>3. cache' \in [Procs -> Registries \cup {Unread}]
    BY <1>3, <1>8 DEF TypeOK, RegistryOK
  <2>4. rot' = rot
    BY DEF Start, rotVars
  <2> QED BY <1>1, <1>3, <2>1, <2>2, <2>3, <2>4, ProcParts DEF TypeOK, RegistryOK
<1>10. RotOK' /\ HistoryOK'
  BY DEF TypeOK, RotOK, HistoryOK, Start, rotVars, saveVars
<1>11. \/ disk' = disk
       \/ /\ \A s \in Sessions : disk[s] = "none"
          /\ \A s \in Sessions : disk'[s] = IF at'[<<"log", s>>].kind # "none"
                                            THEN "active" ELSE "none"
  BY DEF Start, Registry
<1> QED BY <1>2, <1>4, <1>5, <1>7, <1>8, <1>9, <1>10, <1>11 DEF TypeOK

\* What an action leaves alone of the snapshots.
QuietLists == snap' = snap /\ found' = found /\ missed' = missed

LEMMA QuietKeep ==
  ASSUME TypeOK, QuietLists,
         \A p \in Agents : \/ pc'[p] = pc[p]
                           \/ pc[p] \notin Running /\ pc'[p] = "read"
                           \/ pc[p] \in {"read", "running"} /\ pc'[p] = "running"
  PROVE  SnapsOK' /\ SameLists
<1>1. SameLists
  BY DEF SameLists, QuietLists, TypeOK, SnapsOK
<1>2. snap' \in [Agents -> Snaps] /\ missed' \in [Agents -> SUBSET Sessions] /\ found' = found
  BY DEF QuietLists, TypeOK, SnapsOK
<1> QED BY <1>1, <1>2, KeepSnaps

LEMMA RegisterType ==
  ASSUME TypeOK, NEW p \in Agents, Register(p)
  PROVE  TypeOK' /\ QuietLists
<1>1. p \in Procs /\ p # Dream /\ p \in Sessions
  BY ProcParts
<1>2. cache[p] \in Registries /\ [cache[p] EXCEPT ![p] = "active"] \in Registries
  <2>1. pc[p] \in Running \cup {"read"}
    BY DEF Register, Running
  <2> QED BY <1>1, <2>1 DEF TypeOK, RegistryOK, Registries, Status
<1>3. /\ cache' = [cache EXCEPT ![p] = [cache[p] EXCEPT ![p] = "active"]]
      /\ disk' = [cache[p] EXCEPT ![p] = "active"]
      /\ undone' \in SUBSET Sessions
  BY DEF Register, Saves, TypeOK, HistoryOK
<1>4. AgentsOK' /\ FilesOK' /\ RotOK' /\ QuietLists
  BY DEF Register, TypeOK, AgentsOK, FilesOK, RotOK, QuietLists, listVars, fileVars, rotVars, Running
<1>5. \A q \in Agents : pc'[q] = IF q = p THEN "running" ELSE pc[q]
  BY DEF Register, TypeOK, AgentsOK
<1>6. SnapsOK'
  BY <1>4, <1>5, QuietKeep DEF Register
<1>7. HistoryOK'
  BY <1>3 DEF Register, TypeOK, HistoryOK, saveVars
<1>8. RegistryOK'
  <2>1. ASSUME NEW e \in Registries, cache' = [cache EXCEPT ![p] = e], disk' = e
        PROVE  RegistryOK'
    <3>1. rot' = rot
      BY DEF Register, rotVars
    <3> QED BY <1>1, <1>5, <2>1, <3>1 DEF TypeOK, RegistryOK
  <2> QED BY <1>2, <1>3, <2>1
<1> QED BY <1>4, <1>6, <1>7, <1>8 DEF TypeOK

LEMMA LoadType ==
  ASSUME TypeOK, NEW p \in Agents, NEW path \in Files, Load(p, path), found' = found,
         \/ pc' = pc
         \/ pc[p] = "load" /\ pc' = [pc EXCEPT ![p] = "running"]
  PROVE  TypeOK' /\ QuietLists
<1>1. Resolve(path) \in Files
  BY ResolveType
<1>2. at[Resolve(path)].turns \in SUBSET Turns
  BY <1>1 DEF TypeOK, FilesOK, FileStates
<1>3. AgentsOK'
  BY <1>2 DEF TypeOK, AgentsOK, Load, Running
<1>4. SnapsOK' /\ QuietLists
  <2>1. snap' = snap /\ missed' = missed /\ found' = found
    BY DEF Load
  <2>2. ASSUME NEW q \in Agents
        PROVE  \/ pc'[q] = pc[q]
               \/ pc[q] = "load" /\ pc'[q] = "running"
    BY DEF TypeOK, AgentsOK
  <2> QED BY <2>1, <2>2 DEF TypeOK, SnapsOK, QuietLists, Running, Building
<1>5. RegistryOK'
  <2>1. \A q \in Agents : pc'[q] = pc[q] \/ (pc[q] = "load" /\ pc'[q] = "running")
    BY DEF TypeOK, AgentsOK
  <2>2. disk' = disk /\ cache' = cache /\ rot' = rot
    BY DEF Load, rotVars
  <2> QED BY <2>1, <2>2 DEF TypeOK, RegistryOK, Running
<1>6. FilesOK' /\ RotOK' /\ HistoryOK'
  BY DEF TypeOK, FilesOK, RotOK, HistoryOK, Load, fileVars, rotVars, saveVars
<1> QED BY <1>3, <1>4, <1>5, <1>6 DEF TypeOK

LEMMA StartFromType ==
  ASSUME TypeOK, NEW p \in Agents, StartFrom(p)
  PROVE  /\ TypeOK' /\ QuietLists
         /\ \E f \in Offered(p) : Load(p, PathOf(p, f))
<1> DEFINE all == NewestFirst(Offered(p) \ {Resolve(ctx[p])})
           mine == Only({f \in Files : Parent[f[2]] = Parent[p]}, all)
           first == Head(IF mine # <<>> THEN mine ELSE all)
<1>1. order \in Seq(Files)
  BY DEF TypeOK, FilesOK
<1>2. all \in Seq(Files) /\ ToSet(all) \subseteq Offered(p)
  BY <1>1, OnlyElements DEF NewestFirst
<1>3. all # <<>> /\ Load(p, PathOf(p, first)) /\ pc' = pc /\ found' = found
  BY DEF StartFrom
<1> HIDE DEF all
<1>4. mine \in Seq(Files) /\ ToSet(mine) \subseteq ToSet(all)
  BY <1>2, OnlyElements
<1> HIDE DEF mine
<1>5. \A s \in Seq(Files) : s # <<>> => Head(s) \in ToSet(s)
  BY DEF ToSet
<1>6. first \in Offered(p)
  BY <1>2, <1>3, <1>4, <1>5
<1> HIDE DEF first
<1>7. PathOf(p, first) \in Files
  BY <1>6, PathLeads
<1> QED BY <1>3, <1>6, <1>7, LoadType

\* What the steps of a list leave alone.
Listing == UNCHANGED <<ctx, mem, taken, disk, cache, fileVars, rotVars, saveVars, undone, misled>>

LEMMA ListingType ==
  ASSUME TypeOK, Listing, NEW p \in Agents, NEW to \in Running, pc[p] \in Running,
         pc' = [pc EXCEPT ![p] = to], SnapsOK'
  PROVE  TypeOK'
<1>1. ctx' = ctx /\ mem' = mem /\ taken' = taken /\ disk' = disk /\ cache' = cache /\ at' = at
      /\ order' = order /\ rot' = rot /\ rotations' = rotations /\ faults' = faults
      /\ saved' = saved /\ writers' = writers /\ undone' = undone /\ misled' = misled
  BY DEF Listing, fileVars, rotVars, saveVars
<1>2. \A q \in Agents : pc'[q] = IF q = p THEN to ELSE pc[q]
  BY DEF TypeOK, AgentsOK
<1>3. AgentsOK'
  BY <1>1 DEF TypeOK, AgentsOK
<1>4. RegistryOK'
  BY <1>1, <1>2 DEF TypeOK, RegistryOK, Running, Building
<1>5. FilesOK' /\ RotOK' /\ HistoryOK'
  BY <1>1 DEF TypeOK, FilesOK, RotOK, HistoryOK
<1> QED BY <1>3, <1>4, <1>5 DEF TypeOK

\* One agent's snapshot changes.
LEMMA OneSnap ==
  ASSUME TypeOK, NEW p \in Agents, NEW to, pc' = [pc EXCEPT ![p] = to],
         snap' \in [Agents -> Snaps], found' \in [Agents -> Seq(Files)],
         missed' \in [Agents -> SUBSET Sessions],
         \A q \in Agents \ {p} : snap'[q] = snap[q] /\ found'[q] = found[q],
         snap'[p].made \/ to \in Building => snap'[p].own \in Files,
         ~snap'[p].made => snap'[p].paths = <<>> /\ snap'[p].newer = {},
         to \in Building => ~snap'[p].made,
         to = "load" => snap'[p].made,
         to \notin Running => ~snap'[p].made /\ snap'[p].own = <<>>,
         to \notin {"check", "stamp"} => found'[p] = <<>>
  PROVE  SnapsOK'
<1>1. \A q \in Agents : pc'[q] = IF q = p THEN to ELSE pc[q]
  BY DEF TypeOK, AgentsOK
<1>2. ASSUME NEW q \in Agents
      PROVE  /\ snap'[q].made \/ pc'[q] \in Building => snap'[q].own \in Files
             /\ ~snap'[q].made => snap'[q].paths = <<>> /\ snap'[q].newer = {}
             /\ pc'[q] \in Building => ~snap'[q].made
             /\ pc'[q] = "load" => snap'[q].made
             /\ pc'[q] \notin Running => ~snap'[q].made /\ snap'[q].own = <<>>
             /\ pc'[q] \notin {"check", "stamp"} => found'[q] = <<>>
  <2>1. CASE q = p
    BY <1>1, <2>1
  <2>2. CASE q # p
    <3>1. pc'[q] = pc[q] /\ snap'[q] = snap[q] /\ found'[q] = found[q]
      BY <1>1, <2>2
    <3> QED BY <3>1 DEF TypeOK, SnapsOK
  <2> QED BY <2>1, <2>2
<1> QED BY <1>2 DEF SnapsOK

LEMMA RebuildType ==
  ASSUME TypeOK, NEW p \in Agents, pc[p] = "running", Rebuild(p), found' = found, Listing
  PROVE  /\ TypeOK' /\ snap'[p].own = Own(p) /\ ~snap'[p].made /\ snap'[p].paths = <<>>
         /\ \A q \in Agents \ {p} : snap'[q] = snap[q] /\ missed'[q] = missed[q]
<1> DEFINE new == [NoSnap EXCEPT !.own = Own(p)]
<1>1. Own(p) \in Files
  BY ValidType
<1>2. new \in Snaps /\ ~new.made /\ new.paths = <<>> /\ new.newer = {} /\ new.own = Own(p)
  <2>1. <<>> \in Seq(Files)
    OBVIOUS
  <2> QED BY <1>1, <2>1 DEF NoSnap, Snaps
<1>3. snap' = [snap EXCEPT ![p] = new] /\ missed' = [missed EXCEPT ![p] = {}]
      /\ pc' = [pc EXCEPT ![p] = "scan"]
  BY DEF Rebuild
<1> HIDE DEF new
<1>4. /\ snap' \in [Agents -> Snaps] /\ snap'[p] = new
      /\ missed' \in [Agents -> SUBSET Sessions]
      /\ \A q \in Agents \ {p} : snap'[q] = snap[q] /\ missed'[q] = missed[q]
  BY <1>2, <1>3 DEF TypeOK, SnapsOK
<1>5. found' \in [Agents -> Seq(Files)] /\ found'[p] = <<>>
  BY DEF TypeOK, SnapsOK
<1>6. "scan" \in Running /\ "scan" \in Building /\ "scan" # "load" /\ pc[p] \in Running
  BY DEF Running, Building
<1>7. SnapsOK'
  BY <1>1, <1>2, <1>3, <1>4, <1>5, <1>6, OneSnap
<1>8. TypeOK'
  BY <1>3, <1>6, <1>7, ListingType
<1> QED BY <1>2, <1>4, <1>8

LEMMA ListType ==
  ASSUME TypeOK, NEW p \in Agents, List(p)
  PROVE  TypeOK' /\ Rebuild(p) /\ Listing /\ found' = found /\ pc[p] = "running"
<1>1. Rebuild(p) /\ found' = found /\ Listing /\ pc[p] = "running"
  BY DEF List, Listing
<1> QED BY <1>1, RebuildType

LEMMA ContinueType ==
  ASSUME TypeOK, NEW p \in Agents, Continue(p)
  PROVE  /\ TypeOK' /\ Listing /\ pc[p] = "running" /\ found' = found
         /\ \/ /\ snap[p].made /\ ~Stale(p) /\ snap' = snap /\ missed' = missed
               /\ pc' = [pc EXCEPT ![p] = "load"]
            \/ Rebuild(p)
<1>1. pc[p] = "running" /\ found' = found /\ Listing /\ pc[p] \in Running
  BY DEF Continue, Listing, Running
<1>2. CASE /\ snap[p].made /\ ~Stale(p) /\ snap' = snap /\ missed' = missed
           /\ pc' = [pc EXCEPT ![p] = "load"]
  <2>1. "load" \in Running /\ "load" \notin Building /\ "load" \notin {"check", "stamp"}
    BY DEF Running, Building
  <2>2. SnapsOK'
    <3>1. /\ snap' \in [Agents -> Snaps] /\ found' \in [Agents -> Seq(Files)]
          /\ missed' \in [Agents -> SUBSET Sessions]
          /\ \A q \in Agents \ {p} : snap'[q] = snap[q] /\ found'[q] = found[q]
          /\ snap'[p] = snap[p] /\ found'[p] = <<>> /\ snap[p].own \in Files
      BY <1>1, <1>2 DEF TypeOK, SnapsOK
    <3> QED BY <1>2, <2>1, <3>1, OneSnap
  <2> QED BY <1>1, <1>2, <2>1, <2>2, ListingType
<1>3. CASE Rebuild(p)
  BY <1>1, <1>3, RebuildType
<1> QED BY <1>2, <1>3 DEF Continue

LEMMA PathsType ==
  ASSUME NEW p, NEW files \in Seq(Files), ToSet(files) \subseteq Offered(p)
  PROVE  /\ Paths(p, files) \in Seq(Files)
         /\ Paths(p, files) = Image([f \in Offered(p) |-> PathOf(p, f)], files)
         /\ ToSet(Paths(p, files)) \subseteq {PathOf(p, f) : f \in Offered(p)}
<1>1. \A n \in DOMAIN files : files[n] \in Offered(p)
  BY DEF ToSet
<1>2. \A n \in DOMAIN files : PathOf(p, files[n]) \in Files
  BY <1>1, PathLeads
<1>3. Paths(p, files) = [n \in DOMAIN files |-> PathOf(p, files[n])]
  BY DEF Paths
<1>4. Paths(p, files) \in Seq(Files) /\ DOMAIN Paths(p, files) = DOMAIN files
  BY <1>2, <1>3
<1>5. ToSet(Paths(p, files)) \subseteq {PathOf(p, f) : f \in Offered(p)}
  BY <1>1, <1>3, <1>4 DEF ToSet
<1>6. Paths(p, files) = Image([f \in Offered(p) |-> PathOf(p, f)], files)
  BY <1>1, <1>3 DEF Image
<1> QED BY <1>4, <1>5, <1>6

LEMMA ScanType ==
  ASSUME TypeOK, NEW p \in Agents, Scan(p)
  PROVE  /\ TypeOK' /\ Listing /\ snap' = snap /\ pc[p] = "scan" /\ pc' = [pc EXCEPT ![p] = "check"]
         /\ NewestFirst(Offered(p)) \in Seq(Files)
         /\ ToSet(NewestFirst(Offered(p))) = ToSet(order) \cap Offered(p)
         /\ found'[p] = Image([f \in Offered(p) |-> PathOf(p, f)], NewestFirst(Offered(p)))
         /\ found'[p] \in Seq(Files)
         /\ ToSet(found'[p]) \subseteq {PathOf(p, f) : f \in Offered(p)}
         /\ missed'[p] = {s \in Sessions : Between(s)}
         /\ \A q \in Agents \ {p} : found'[q] = found[q] /\ missed'[q] = missed[q]
<1> DEFINE files == NewestFirst(Offered(p))
<1>1. files \in Seq(Files) /\ ToSet(files) = ToSet(order) \cap Offered(p)
  BY OnlyElements DEF NewestFirst, TypeOK, FilesOK
<1>2. found' = [found EXCEPT ![p] = Paths(p, files)] /\ snap' = snap
      /\ missed' = [missed EXCEPT ![p] = {s \in Sessions : Between(s)}]
      /\ pc[p] = "scan" /\ pc' = [pc EXCEPT ![p] = "check"] /\ Listing
  BY DEF Scan, Listing
<1> HIDE DEF files
<1>3. /\ Paths(p, files) \in Seq(Files)
      /\ Paths(p, files) = Image([f \in Offered(p) |-> PathOf(p, f)], files)
      /\ ToSet(Paths(p, files)) \subseteq {PathOf(p, f) : f \in Offered(p)}
  <2>1. ToSet(files) \subseteq Offered(p)
    BY <1>1
  <2> QED BY <1>1, <2>1, PathsType
<1>4. /\ found' \in [Agents -> Seq(Files)] /\ found'[p] = Paths(p, files)
      /\ missed' \in [Agents -> SUBSET Sessions] /\ missed'[p] = {s \in Sessions : Between(s)}
      /\ \A q \in Agents \ {p} : found'[q] = found[q] /\ missed'[q] = missed[q]
  BY <1>2, <1>3 DEF TypeOK, SnapsOK
<1>5. /\ "scan" \in Building /\ "check" \in Building /\ "check" \in Running /\ pc[p] \in Running
      /\ "check" # "load"
  BY <1>2 DEF Building, Running
<1>6. SnapsOK'
  <2>1. /\ snap' \in [Agents -> Snaps] /\ \A q \in Agents \ {p} : snap'[q] = snap[q]
        /\ ~snap'[p].made /\ snap'[p].own \in Files /\ snap'[p].paths = <<>> /\ snap'[p].newer = {}
    BY <1>2, <1>5 DEF TypeOK, SnapsOK
  <2> QED BY <1>2, <1>4, <1>5, <2>1, OneSnap
<1>7. TypeOK'
  BY <1>2, <1>5, <1>6, ListingType
<1> QED BY <1>1, <1>2, <1>3, <1>4, <1>7 DEF files

LEMMA CheckType ==
  ASSUME TypeOK, NEW p \in Agents, Check(p)
  PROVE  /\ TypeOK' /\ Listing /\ snap' = snap /\ missed' = missed
         /\ pc[p] = "check" /\ pc' = [pc EXCEPT ![p] = "stamp"]
         /\ found'[p] = Only({f \in Files : Readable(f) /\ Resolve(f) # Resolve(Own(p))}, found[p])
         /\ ToSet(found'[p]) \subseteq ToSet(found[p])
         /\ \A q \in Agents \ {p} : found'[q] = found[q]
<1> DEFINE valid == {f \in Files : Readable(f) /\ Resolve(f) # Resolve(Own(p))}
<1>1. found' = [found EXCEPT ![p] = Only(valid, found[p])] /\ snap' = snap /\ missed' = missed
      /\ pc[p] = "check" /\ pc' = [pc EXCEPT ![p] = "stamp"] /\ Listing
  BY DEF Check, Listing
<1> HIDE DEF valid
<1>2. Only(valid, found[p]) \in Seq(Files) /\ ToSet(Only(valid, found[p])) \subseteq ToSet(found[p])
  <2>1. found[p] \in Seq(Files)
    BY DEF TypeOK, SnapsOK
  <2> QED BY <2>1, OnlyElements
<1>3. /\ found' \in [Agents -> Seq(Files)] /\ found'[p] = Only(valid, found[p])
      /\ missed' \in [Agents -> SUBSET Sessions]
      /\ \A q \in Agents \ {p} : found'[q] = found[q]
  BY <1>1, <1>2 DEF TypeOK, SnapsOK
<1>4. /\ "check" \in Building /\ "stamp" \in Building /\ "stamp" \in Running /\ pc[p] \in Running
      /\ "stamp" # "load"
  BY <1>1 DEF Building, Running
<1>5. SnapsOK'
  <2>1. /\ snap' \in [Agents -> Snaps] /\ \A q \in Agents \ {p} : snap'[q] = snap[q]
        /\ ~snap'[p].made /\ snap'[p].own \in Files /\ snap'[p].paths = <<>> /\ snap'[p].newer = {}
    BY <1>1, <1>4 DEF TypeOK, SnapsOK
  <2> QED BY <1>1, <1>3, <1>4, <2>1, OneSnap
<1>6. TypeOK'
  BY <1>1, <1>4, <1>5, ListingType
<1> QED BY <1>1, <1>2, <1>3, <1>6 DEF valid

LEMMA TakeStampType ==
  ASSUME TypeOK, NEW p \in Agents, TakeStamp(p)
  PROVE  /\ TypeOK' /\ Listing /\ missed' = missed
         /\ pc[p] = "stamp" /\ pc'[p] \in {"running", "load"}
         /\ snap'[p].made /\ snap'[p].paths = found[p] /\ snap'[p].newer = {}
         /\ snap'[p].own = snap[p].own /\ found'[p] = <<>>
         /\ \A q \in Agents \ {p} : snap'[q] = snap[q] /\ found'[q] = found[q] /\ pc'[q] = pc[q]
<1> DEFINE new == [made |-> TRUE, paths |-> found[p], newer |-> {}, own |-> snap[p].own]
<1>1. snap' = [snap EXCEPT ![p] = new] /\ found' = [found EXCEPT ![p] = <<>>]
      /\ missed' = missed /\ pc[p] = "stamp" /\ Listing
  BY DEF TakeStamp, Listing
<1>2. PICK to \in {"running", "load"} : pc' = [pc EXCEPT ![p] = to]
  BY DEF TakeStamp
<1>3. /\ "stamp" \in Building /\ to \in Running /\ to \notin Building /\ pc[p] \in Running
      /\ to \notin {"check", "stamp"}
  BY <1>1 DEF Building, Running
<1>4. new \in Snaps /\ new.made /\ new.own \in Files /\ new.paths = found[p] /\ new.newer = {}
      /\ new.own = snap[p].own
  BY <1>1, <1>3 DEF TypeOK, SnapsOK, Snaps
<1> HIDE DEF new
<1>5. /\ snap' \in [Agents -> Snaps] /\ snap'[p] = new
      /\ found' \in [Agents -> Seq(Files)] /\ found'[p] = <<>>
      /\ missed' \in [Agents -> SUBSET Sessions]
      /\ \A q \in Agents \ {p} : snap'[q] = snap[q] /\ found'[q] = found[q]
  <2>1. <<>> \in Seq(Files)
    OBVIOUS
  <2> QED BY <1>1, <1>4, <2>1 DEF TypeOK, SnapsOK
<1>6. SnapsOK'
  BY <1>2, <1>3, <1>4, <1>5, OneSnap
<1>7. TypeOK'
  BY <1>1, <1>2, <1>3, <1>6, ListingType
<1>8. pc'[p] = to /\ \A q \in Agents \ {p} : pc'[q] = pc[q]
  BY <1>2 DEF TypeOK, AgentsOK
<1> QED BY <1>1, <1>4, <1>5, <1>7, <1>8

LEMMA LoadNumberType ==
  ASSUME TypeOK, NEW p \in Agents, LoadNumber(p)
  PROVE  /\ TypeOK' /\ QuietLists /\ pc[p] = "load" /\ pc' = [pc EXCEPT ![p] = "running"]
         /\ \/ \E path \in ToSet(snap[p].paths) : path \in Files /\ Load(p, path)
            \/ Listing
<1>1. pc[p] = "load" /\ pc' = [pc EXCEPT ![p] = "running"] /\ found' = found
  BY DEF LoadNumber
<1>2. snap[p].paths \in Seq(Files)
  BY DEF TypeOK, SnapsOK, Snaps
<1>3. ASSUME NEW n \in DOMAIN snap[p].paths, Load(p, snap[p].paths[n])
      PROVE  /\ TypeOK' /\ QuietLists
             /\ snap[p].paths[n] \in ToSet(snap[p].paths) /\ snap[p].paths[n] \in Files
  <2>1. snap[p].paths[n] \in ToSet(snap[p].paths) /\ snap[p].paths[n] \in Files
    BY <1>2 DEF ToSet
  <2> QED BY <1>1, <1>3, <2>1, LoadType
<1>4. CASE UNCHANGED <<ctx, mem, taken, snap, disk, cache, fileVars, rotVars, saveVars, undone,
                       misled, missed>>
  <2>1. Listing /\ QuietLists
    BY <1>1, <1>4 DEF Listing, QuietLists
  <2>2. "running" \in Running /\ "load" \in Running /\ "running" \notin Building
    BY DEF Running, Building
  <2>3. SnapsOK'
    <3>1. /\ snap' \in [Agents -> Snaps] /\ found' \in [Agents -> Seq(Files)]
          /\ missed' \in [Agents -> SUBSET Sessions]
          /\ \A q \in Agents \ {p} : snap'[q] = snap[q] /\ found'[q] = found[q]
          /\ snap'[p].made /\ snap'[p].own \in Files /\ found'[p] = <<>>
      BY <1>1, <2>1 DEF QuietLists, TypeOK, SnapsOK
    <3> QED BY <1>1, <2>2, <3>1, OneSnap
  <2> QED BY <1>1, <2>1, <2>2, <2>3, ListingType
<1> QED BY <1>1, <1>3, <1>4 DEF LoadNumber

LEMMA SaveType ==
  ASSUME TypeOK, NEW p \in Agents, NEW turns \in SUBSET Turns, Save(p, turns)
  PROVE  /\ FilesOK'
         /\ saved' \in [Sessions -> SUBSET Turns] /\ writers' \in [Sessions -> SUBSET Agents]
         /\ \A g \in Files : at'[g] = IF g = ctx[p] THEN Context(turns) ELSE at[g]
         /\ \A s \in Sessions : /\ saved'[s] = IF s = ctx[p][2] THEN turns ELSE saved[s]
                                /\ writers'[s] = IF s = ctx[p][2] THEN writers[s] \cup {p}
                                                 ELSE writers[s]
<1>1. ctx[p] \in Files /\ ctx[p][2] \in Sessions
  BY FileParts DEF TypeOK, AgentsOK
<1>2. Context(turns) \in FileStates /\ Write(ctx[p], Context(turns))
  BY FileKinds DEF Save
<1>3. FilesOK' /\ \A g \in Files : at'[g] = IF g = ctx[p] THEN Context(turns) ELSE at[g]
  BY <1>1, <1>2, WriteType DEF TypeOK
<1>4. /\ saved' = [saved EXCEPT ![ctx[p][2]] = turns]
      /\ writers' = [writers EXCEPT ![ctx[p][2]] = writers[ctx[p][2]] \cup {p}]
  BY DEF Save
<1>5. ASSUME NEW s \in Sessions, s = ctx[p][2]
      PROVE  /\ saved' \in [Sessions -> SUBSET Turns] /\ writers' \in [Sessions -> SUBSET Agents]
             /\ \A t \in Sessions : /\ saved'[t] = IF t = s THEN turns ELSE saved[t]
                                    /\ writers'[t] = IF t = s THEN writers[t] \cup {p} ELSE writers[t]
  BY <1>4, <1>5 DEF TypeOK, HistoryOK
<1> QED BY <1>1, <1>3, <1>5

LEMMA TurnType ==
  ASSUME TypeOK, NEW p \in Agents, Turn(p)
  PROVE  TypeOK' /\ SameLists /\ mem'[p] \in SUBSET Turns /\ Save(p, mem'[p])
<1> DEFINE k == taken[p] + 1
           m == mem[p] \cup {<<p, k>>}
<1>1. k \in Nat /\ p \in Sessions
  BY ProcParts DEF TypeOK, AgentsOK
<1>2. taken' = [taken EXCEPT ![p] = k] /\ taken'[p] = k
  BY DEF Turn, TypeOK, AgentsOK
<1>3. m \in SUBSET Turns
  BY <1>1 DEF TypeOK, AgentsOK, Turns
<1>4. mem' = [mem EXCEPT ![p] = m]
  BY <1>2 DEF Turn
<1> HIDE DEF k, m
<1>5. mem'[p] = m
  BY <1>4 DEF TypeOK, AgentsOK
<1>6. Save(p, m) /\ Save(p, mem'[p])
  BY <1>5 DEF Turn
<1>7. AgentsOK'
  BY <1>1, <1>2, <1>3, <1>4 DEF Turn, TypeOK, AgentsOK
<1>8. SnapsOK' /\ SameLists
  <2>1. snap' = Dated(ctx[p]) /\ pc' = pc /\ found' = found /\ missed' = Missing(ctx[p][2])
    BY DEF Turn
  <2>2. ctx[p] \in Files /\ ctx[p][2] \in Sessions
    BY FileParts DEF TypeOK, AgentsOK
  <2>3. snap \in [Agents -> Snaps] /\ missed \in [Agents -> SUBSET Sessions]
        /\ \A q \in Agents : ~snap[q].made => snap[q].newer = {}
    BY DEF TypeOK, SnapsOK
  <2>4. SameLists /\ snap' \in [Agents -> Snaps]
    BY <2>1, <2>2, <2>3, DatedType DEF SameLists
  <2> QED BY <2>1, <2>2, <2>3, <2>4, MissingType, KeepSnaps
<1>9. FilesOK' /\ HistoryOK'
  BY <1>3, <1>6, SaveType DEF Turn, TypeOK, HistoryOK
<1>10. RegistryOK' /\ RotOK'
  BY DEF Turn, TypeOK, RegistryOK, RotOK, rotVars
<1> QED BY <1>3, <1>5, <1>6, <1>7, <1>8, <1>9, <1>10 DEF TypeOK

LEMMA ExitType ==
  ASSUME TypeOK, NEW p \in Agents, Exit(p)
  PROVE  /\ TypeOK' /\ mem[p] \in SUBSET Turns /\ Save(p, mem[p])
         /\ ~snap'[p].made /\ snap'[p].own = <<>> /\ snap'[p].paths = <<>>
         /\ \A q \in Agents \ {p} : /\ snap'[q].made = snap[q].made
                                    /\ snap'[q].paths = snap[q].paths
                                    /\ snap'[q].own = snap[q].own
                                    /\ snap'[q] = Dated(ctx[p])[q]
                                    /\ missed'[q] = Missing(ctx[p][2])[q]
<1>1. mem[p] \in SUBSET Turns /\ Save(p, mem[p])
  BY DEF Exit, TypeOK, AgentsOK
<1>2. AgentsOK'
  BY FileParts, ProcParts DEF Exit, TypeOK, AgentsOK
<1>3. /\ NoSnap \in Snaps /\ ~NoSnap.made /\ NoSnap.own = <<>> /\ NoSnap.paths = <<>>
      /\ NoSnap.newer = {}
  <2>1. <<>> \in Seq(Files)
    OBVIOUS
  <2> QED BY <2>1 DEF NoSnap, Snaps
<1>4. /\ snap' = [Dated(ctx[p]) EXCEPT ![p] = NoSnap] /\ found' = found
      /\ missed' = [Missing(ctx[p][2]) EXCEPT ![p] = {}]
      /\ \A q \in Agents : pc'[q] = IF q = p THEN "ended" ELSE pc[q]
      /\ pc[p] = "running"
  BY DEF Exit, TypeOK, AgentsOK
<1>5. ctx[p] \in Files /\ ctx[p][2] \in Sessions
  BY FileParts DEF TypeOK, AgentsOK
<1>6. snap \in [Agents -> Snaps] /\ missed \in [Agents -> SUBSET Sessions]
      /\ found \in [Agents -> Seq(Files)]
  BY DEF TypeOK, SnapsOK
<1>7. /\ Dated(ctx[p]) \in [Agents -> Snaps] /\ Missing(ctx[p][2]) \in [Agents -> SUBSET Sessions]
      /\ \A q \in Agents : /\ Dated(ctx[p])[q].made = snap[q].made
                           /\ Dated(ctx[p])[q].paths = snap[q].paths
                           /\ Dated(ctx[p])[q].own = snap[q].own
                           /\ ~snap[q].made => Dated(ctx[p])[q].newer = snap[q].newer
  BY <1>5, <1>6, DatedType, MissingType
<1>8. /\ snap' \in [Agents -> Snaps] /\ snap'[p] = NoSnap
      /\ missed' \in [Agents -> SUBSET Sessions]
      /\ \A q \in Agents \ {p} : /\ snap'[q] = Dated(ctx[p])[q]
                                 /\ missed'[q] = Missing(ctx[p][2])[q]
  BY <1>3, <1>4, <1>7
<1>9. SnapsOK'
  <2>1. ASSUME NEW q \in Agents
        PROVE  /\ snap'[q].made \/ pc'[q] \in Building => snap'[q].own \in Files
               /\ ~snap'[q].made => snap'[q].paths = <<>> /\ snap'[q].newer = {}
               /\ pc'[q] \in Building => ~snap'[q].made
               /\ pc'[q] = "load" => snap'[q].made
               /\ pc'[q] \notin Running => ~snap'[q].made /\ snap'[q].own = <<>>
               /\ pc'[q] \notin {"check", "stamp"} => found'[q] = <<>>
    <3>1. CASE q = p
      <4>1. found[p] = <<>>
        BY <1>4 DEF TypeOK, SnapsOK
      <4> QED BY <1>3, <1>4, <1>8, <3>1, <4>1 DEF Building
    <3>2. CASE q # p
      <4>1. /\ snap'[q].made = snap[q].made /\ snap'[q].paths = snap[q].paths
            /\ snap'[q].own = snap[q].own /\ pc'[q] = pc[q] /\ found'[q] = found[q]
        BY <1>4, <1>7, <1>8, <3>2
      <4>2. ~snap[q].made => snap'[q].newer = snap[q].newer
        BY <1>7, <1>8, <3>2
      <4> QED BY <4>1, <4>2 DEF TypeOK, SnapsOK
    <3> QED BY <3>1, <3>2
  <2> QED BY <1>4, <1>6, <1>8, <2>1 DEF SnapsOK
<1>10. FilesOK' /\ HistoryOK'
  BY <1>1, SaveType DEF Exit, TypeOK, HistoryOK
<1>11. RegistryOK'
  <2>1. cache' = [cache EXCEPT ![p] = Unread] /\ disk' = disk /\ rot' = rot
    BY DEF Exit, rotVars
  <2>2. "ended" \notin Running \cup {"read"}
    BY DEF Running, Building
  <2> QED BY <1>4, <2>1, <2>2, ProcParts DEF TypeOK, RegistryOK
<1>12. RotOK'
  BY DEF Exit, TypeOK, RotOK, rotVars
<1>13. \A q \in Agents \ {p} : /\ snap'[q].made = snap[q].made
                               /\ snap'[q].paths = snap[q].paths
                               /\ snap'[q].own = snap[q].own
  BY <1>7, <1>8
<1> QED BY <1>1, <1>2, <1>3, <1>8, <1>9, <1>10, <1>11, <1>12, <1>13 DEF TypeOK

LEMMA Counters ==
  ASSUME TypeOK
  PROVE  rotations \in Nat /\ faults \in Nat
<1>1. RotOK
  BY DEF TypeOK
<1> QED BY <1>1 DEF RotOK

LEMMA SelectType ==
  ASSUME TypeOK, Select
  PROVE  /\ TypeOK' /\ QuietLists /\ rot = Idle /\ fileVars' = fileVars
         /\ \A q \in Agents : cache'[q] = cache[q]
         /\ cache[Dream] # Unread => disk' = disk /\ cache'[Dream] = cache[Dream]
         /\ cache[Dream] = Unread => disk' = cache'[Dream]
         /\ \/ disk' = disk
            \/ /\ \A s \in Sessions : disk[s] = "none"
               /\ \A s \in Sessions : disk'[s] = IF at[<<"log", s>>].kind # "none"
                                                 THEN "active" ELSE "none"
         /\ rot'.step \in {"idle", "pick"}
         /\ \A s \in rot'.todo : s \in Sessions /\ cache'[Dream][s] = "active" /\ Exists(<<"log", s>>)
<1> DEFINE e == IF cache[Dream] = Unread THEN Registry(at) ELSE cache[Dream]
<1>1. e \in Registries
  BY RegistryType, ProcParts DEF TypeOK, RegistryOK
<1>2. /\ cache' = [cache EXCEPT ![Dream] = e]
      /\ disk' = IF cache[Dream] = Unread THEN e ELSE disk
      /\ \E todo \in SUBSET {s \in Sessions : e[s] = "active" /\ Exists(<<"log", s>>)} :
            rot' = IF todo = {} THEN Idle ELSE [Idle EXCEPT !.step = "pick", !.todo = todo]
      /\ rot = Idle /\ rotations' = rotations + 1
  BY DEF Select
<1>3. cache[Dream] = Unread => disk' = Registry(at)
  BY <1>2
<1>4. \/ Registry(at) = disk
      \/ /\ \A s \in Sessions : disk[s] = "none"
         /\ \A s \in Sessions : Registry(at)[s] = IF at[<<"log", s>>].kind # "none"
                                                  THEN "active" ELSE "none"
  BY DEF Registry
<1>5. cache[Dream] # Unread => e = cache[Dream] /\ disk' = disk
  BY <1>2
<1> HIDE DEF e
<1>6. cache'[Dream] = e /\ \A q \in Agents : cache'[q] = cache[q]
  BY <1>2, ProcParts DEF TypeOK, RegistryOK
<1>7. PICK todo \in SUBSET {s \in Sessions : e[s] = "active" /\ Exists(<<"log", s>>)} :
            rot' = IF todo = {} THEN Idle ELSE [Idle EXCEPT !.step = "pick", !.todo = todo]
  BY <1>2
<1>8. /\ rot'.step \in {"idle", "pick"} /\ rot'.todo \subseteq todo /\ rot'.s = "" /\ rot'.ok = FALSE
      /\ rot'.step = "idle" => rot' = Idle
      /\ rot' \in [step : {"idle", "pick", "moved", "record"}, s : Sessions \cup {""},
                   todo : SUBSET Sessions, ok : BOOLEAN]
  BY <1>7 DEF Idle
<1>9. RotOK'
  <2>1. rotations' \in Nat /\ faults' \in Nat
    BY <1>2, Counters DEF Select, agentVars, fileVars
  <2> QED BY <1>8, <2>1 DEF RotOK
<1>10. RegistryOK'
  BY <1>1, <1>2, ProcParts DEF TypeOK, RegistryOK, Select, agentVars
<1>11. AgentsOK' /\ SnapsOK' /\ FilesOK' /\ HistoryOK'
  BY DEF TypeOK, AgentsOK, SnapsOK, FilesOK, HistoryOK, Select, agentVars, listVars, fileVars,
         saveVars
<1>12. fileVars' = fileVars /\ QuietLists
  BY DEF Select, listVars, QuietLists
<1>13. TypeOK'
  BY <1>9, <1>10, <1>11 DEF TypeOK
<1>14. \A s \in rot'.todo : s \in Sessions /\ cache'[Dream][s] = "active" /\ Exists(<<"log", s>>)
  BY <1>6, <1>7, <1>8
<1>15. cache[Dream] = Unread => disk' = cache'[Dream]
  BY <1>2, <1>6
<1>16. \/ disk' = disk
       \/ /\ \A s \in Sessions : disk[s] = "none"
          /\ \A s \in Sessions : disk'[s] = IF at[<<"log", s>>].kind # "none"
                                            THEN "active" ELSE "none"
  BY <1>3, <1>4, <1>5
<1>17. cache[Dream] # Unread => disk' = disk /\ cache'[Dream] = cache[Dream]
  BY <1>5, <1>6
<1> QED BY <1>2, <1>6, <1>8, <1>12, <1>13, <1>14, <1>15, <1>16, <1>17

LEMMA RedatedKeeps ==
  ASSUME TypeOK, NEW f \in Files, NEW g \in Files, snap' = Redated(f, g)
  PROVE  snap' \in [Agents -> Snaps] /\ SameLists
<1>1. snap \in [Agents -> Snaps] /\ \A p \in Agents : ~snap[p].made => snap[p].newer = {}
  BY DEF TypeOK, SnapsOK
<1>2. snap' \in [Agents -> Snaps]
  BY <1>1, RedatedType
<1>3. ASSUME NEW p \in Agents
      PROVE  /\ snap'[p].made = snap[p].made /\ snap'[p].paths = snap[p].paths
             /\ snap'[p].own = snap[p].own
             /\ ~snap[p].made => snap'[p].newer = {}
  <2> DEFINE n == IF f \in snap[p].newer THEN (snap[p].newer \ {f}) \cup {g}
                  ELSE snap[p].newer \ {g}
  <2>4. snap[p] \in Snaps
    BY <1>1
  <2>5. snap'[p] = [snap[p] EXCEPT !.newer = n]
    BY DEF Redated
  <2> HIDE DEF n
  <2>1. /\ snap'[p].made = snap[p].made /\ snap'[p].paths = snap[p].paths
        /\ snap'[p].own = snap[p].own /\ snap'[p].newer = n
    BY <2>4, <2>5 DEF Snaps
  <2>2. ASSUME NEW S, S = {}
        PROVE  (IF f \in S THEN (S \ {f}) \cup {g} ELSE S \ {g}) = {}
    BY <2>2
  <2>3. snap[p].newer = {} => n = {}
    BY <2>2 DEF n
  <2> QED BY <1>1, <2>1, <2>3
<1> QED BY <1>2, <1>3 DEF SameLists

LEMMA MoveType ==
  ASSUME TypeOK, NEW s \in Sessions, Move(s)
  PROVE  /\ TypeOK' /\ SameLists /\ snap' = Redated(<<"log", s>>, <<"arch", s>>)
         /\ found' = found /\ missed' = Missing(s)
         /\ \A h \in Files : at'[h] = IF h = <<"arch", s>> THEN at[<<"log", s>>]
                                      ELSE IF h = <<"log", s>> THEN Absent ELSE at[h]
         /\ order' = Image(Renamed(<<"log", s>>, <<"arch", s>>),
                           Only(Files \ {<<"arch", s>>}, order))
         /\ rot'.step = "moved" /\ rot'.s = s /\ rot'.todo = rot.todo \ {s} /\ ~rot'.ok
         /\ rot.step = "pick" /\ s \in rot.todo
<1>1. /\ FilesOK'
      /\ \A h \in Files : at'[h] = IF h = <<"arch", s>> THEN at[<<"log", s>>]
                                   ELSE IF h = <<"log", s>> THEN Absent ELSE at[h]
      /\ order' = Image(Renamed(<<"log", s>>, <<"arch", s>>),
                        Only(Files \ {<<"arch", s>>}, order))
  BY FileParts, RenameType DEF Move, TypeOK
<1>2. /\ rot'.step = "moved" /\ rot'.s = s /\ rot'.todo = rot.todo \ {s} /\ ~rot'.ok
      /\ rot.step = "pick" /\ s \in rot.todo
      /\ RotOK'
  BY DEF Move, TypeOK, RotOK
<1>3. RegistryOK'
  BY <1>2 DEF Move, TypeOK, RegistryOK, agentVars
<1>4. AgentsOK' /\ HistoryOK'
  <2>1. misled' \in SUBSET Sessions
    BY DEF Move, TypeOK, HistoryOK
  <2> QED BY <2>1 DEF Move, TypeOK, AgentsOK, HistoryOK, agentVars, saveVars
<1>5. snap' = Redated(<<"log", s>>, <<"arch", s>>) /\ found' = found /\ missed' = Missing(s)
      /\ pc' = pc
  BY DEF Move, Rename, agentVars
<1>6. SnapsOK' /\ SameLists
  <2>1. snap' \in [Agents -> Snaps] /\ SameLists
    BY <1>5, RedatedKeeps, FileParts
  <2> QED BY <1>5, <2>1, MissingType, KeepSnaps DEF TypeOK, SnapsOK
<1> QED BY <1>1, <1>2, <1>3, <1>4, <1>5, <1>6 DEF TypeOK

LEMMA MakeLinkType ==
  ASSUME TypeOK, MakeLink
  PROVE  /\ TypeOK' /\ rot.s \in Sessions /\ rot.step = "moved"
         /\ rot'.step = "record" /\ rot'.s = rot.s /\ rot'.todo = rot.todo
         /\ SameLists /\ found' = found /\ missed' = missed
         /\ \/ /\ at[<<"log", rot.s>>].kind = "none" /\ rot'.ok /\ order' = order
               /\ snap' = snap
               /\ \A h \in Files : at'[h] = IF h = <<"log", rot.s>> THEN Link ELSE at[h]
            \/ /\ at[<<"log", rot.s>>].kind # "none" /\ ~rot'.ok /\ fileVars' = fileVars
               /\ snap' = snap
            \/ /\ at[<<"log", rot.s>>].kind = "none" /\ ~rot'.ok
               /\ Exists(<<"arch", rot.s>>)
               /\ \A h \in Files : at'[h] = IF h = <<"log", rot.s>> THEN at[<<"arch", rot.s>>]
                                            ELSE IF h = <<"arch", rot.s>> THEN Absent ELSE at[h]
               /\ order' = Image(Renamed(<<"arch", rot.s>>, <<"log", rot.s>>),
                                 Only(Files \ {<<"log", rot.s>>}, order))
               /\ snap' = Redated(<<"arch", rot.s>>, <<"log", rot.s>>)
            \/ /\ at[<<"log", rot.s>>].kind = "none" /\ ~rot'.ok
               /\ ~Exists(<<"arch", rot.s>>) /\ fileVars' = fileVars /\ snap' = snap
<1> DEFINE log == <<"log", rot.s>>
           arch == <<"arch", rot.s>>
<1>1. rot.step = "moved" /\ rot.s \in Sessions /\ ~rot.ok
  BY DEF MakeLink, TypeOK, RotOK
<1>2. log \in Files /\ arch \in Files /\ log # arch
  BY <1>1, FileParts
<1>3. AgentsOK' /\ HistoryOK' /\ found' = found /\ missed' = missed /\ pc' = pc
  BY DEF MakeLink, TypeOK, AgentsOK, HistoryOK, agentVars, saveVars
<1>9. ASSUME snap' = snap \/ snap' = Redated(arch, log)
      PROVE  SnapsOK' /\ SameLists
  <2>1. snap' = snap => QuietLists
    BY <1>3 DEF QuietLists
  <2>2. missed' \in [Agents -> SUBSET Sessions]
    BY <1>3 DEF TypeOK, SnapsOK
  <2>3. snap' = Redated(arch, log) => snap' \in [Agents -> Snaps] /\ SameLists
    BY <1>2, RedatedKeeps
  <2> QED BY <1>3, <1>9, <2>1, <2>2, <2>3, QuietKeep, KeepSnaps
<1>4. ASSUME rot'.step = "record", rot' = [rot EXCEPT !.step = "record"]
             \/ rot' = [rot EXCEPT !.step = "record", !.ok = TRUE], faults' \in Nat
      PROVE  /\ RotOK' /\ RegistryOK' /\ rot'.s = rot.s /\ rot'.todo = rot.todo
             /\ rot' = [rot EXCEPT !.step = "record"] => ~rot'.ok
  <2>1. rot' = [rot EXCEPT !.step = "record"] => ~rot'.ok /\ rot'.s = rot.s /\ rot'.todo = rot.todo
    BY <1>1 DEF TypeOK, RotOK
  <2>2. rot'.s = rot.s /\ rot'.todo = rot.todo
    BY <1>4, <2>1 DEF TypeOK, RotOK
  <2>3. RotOK'
    <3>1. rotations' = rotations /\ TRUE \in BOOLEAN
      BY DEF MakeLink
    <3> QED BY <1>1, <1>4, <2>2, <3>1 DEF TypeOK, RotOK
  <2>4. RegistryOK'
    BY <1>1, <1>4 DEF MakeLink, TypeOK, RegistryOK, agentVars
  <2> QED BY <2>1, <2>2, <2>3, <2>4
<1>5. CASE /\ at[log].kind = "none" /\ at' = [at EXCEPT ![log] = Link]
           /\ rot' = [rot EXCEPT !.step = "record", !.ok = TRUE]
           /\ UNCHANGED <<order, snap, faults>>
  <2>1. rot'.step = "record" /\ rot'.ok = TRUE /\ faults' \in Nat
    BY <1>5 DEF TypeOK, RotOK
  <2>2. FilesOK' /\ \A h \in Files : at'[h] = IF h = log THEN Link ELSE at[h]
    BY <1>2, <1>5, FileKinds DEF TypeOK, FilesOK
  <2> QED BY <1>1, <1>3, <1>4, <1>5, <1>9, <2>1, <2>2 DEF TypeOK
<1>6. CASE /\ at[log].kind # "none" /\ rot' = [rot EXCEPT !.step = "record"]
           /\ UNCHANGED <<fileVars, snap, faults>>
  <2>1. rot'.step = "record" /\ faults' \in Nat
    BY <1>6 DEF TypeOK, RotOK
  <2>2. FilesOK' /\ fileVars' = fileVars
    BY <1>6 DEF TypeOK, FilesOK, fileVars
  <2> QED BY <1>1, <1>3, <1>4, <1>6, <1>9, <2>1, <2>2 DEF TypeOK
<1>7. CASE /\ at[log].kind = "none" /\ Fault
           /\ IF Exists(arch) THEN Rename(arch, log) ELSE UNCHANGED <<fileVars, snap>>
           /\ rot' = [rot EXCEPT !.step = "record"]
  <2>1. rot'.step = "record" /\ faults' \in Nat
    <3>1. rot'.step = "record"
      <4>1. rot' = [rot EXCEPT !.step = "record"]
        BY <1>7
      <4> QED BY <4>1 DEF TypeOK, RotOK
    <3>2. faults' = faults + 1
      BY <1>7 DEF Fault
    <3> QED BY <3>1, <3>2, Counters
  <2>2. CASE Exists(arch)
    <3>1. /\ FilesOK'
          /\ \A h \in Files : at'[h] = IF h = log THEN at[arch]
                                       ELSE IF h = arch THEN Absent ELSE at[h]
          /\ order' = Image(Renamed(arch, log), Only(Files \ {log}, order))
      BY <1>2, <1>7, <2>2, RenameType DEF TypeOK
    <3>2. RotOK' /\ RegistryOK' /\ rot'.s = rot.s /\ rot'.todo = rot.todo /\ ~rot'.ok
      BY <1>4, <1>7, <2>1
    <3>3. snap' = Redated(arch, log)
      BY <1>7, <2>2 DEF Rename
    <3>4. SnapsOK' /\ SameLists
      BY <1>9, <3>3
    <3> QED BY <1>1, <1>3, <1>7, <2>1, <2>2, <3>1, <3>2, <3>3, <3>4 DEF TypeOK
  <2>3. CASE ~Exists(arch)
    <3>1. FilesOK' /\ fileVars' = fileVars
      BY <1>7, <2>3 DEF TypeOK, FilesOK, fileVars
    <3>2. RotOK' /\ RegistryOK' /\ rot'.s = rot.s /\ rot'.todo = rot.todo /\ ~rot'.ok
      BY <1>4, <1>7, <2>1
    <3>3. snap' = snap
      BY <1>7, <2>3
    <3>4. SnapsOK' /\ SameLists
      BY <1>9, <3>3
    <3> QED BY <1>1, <1>3, <1>7, <2>1, <2>3, <3>1, <3>2, <3>3, <3>4 DEF TypeOK
  <2> QED BY <2>2, <2>3
<1>8. \/ /\ at[log].kind = "none" /\ at' = [at EXCEPT ![log] = Link]
         /\ rot' = [rot EXCEPT !.step = "record", !.ok = TRUE]
         /\ UNCHANGED <<order, snap, faults>>
      \/ /\ at[log].kind # "none" /\ rot' = [rot EXCEPT !.step = "record"]
         /\ UNCHANGED <<fileVars, snap, faults>>
      \/ /\ at[log].kind = "none" /\ Fault
         /\ IF Exists(arch) THEN Rename(arch, log) ELSE UNCHANGED <<fileVars, snap>>
         /\ rot' = [rot EXCEPT !.step = "record"]
  BY DEF MakeLink
<1> QED BY <1>5, <1>6, <1>7, <1>8

\* A process saves the registry as it has it, with a change of its own.
SavedBy(q, e) == /\ e \in Registries
                 /\ \A r \in Procs : cache'[r] = IF r = q THEN e ELSE cache[r]
                 /\ disk' = e
                 /\ \A s \in Sessions : s \in undone' <=>
                        s \in undone \/ (disk[s] = "archived" /\ e[s] # "archived")

LEMMA SavesType ==
  ASSUME TypeOK, NEW q \in Procs, NEW e \in Registries, Saves(q, e),
         pc' = pc, rot'.step # "idle" => rot.step # "idle" \/ q = Dream,
         q \in Agents => pc[q] \in Running \cup {"read"}
  PROVE  RegistryOK' /\ undone' \in SUBSET Sessions /\ SavedBy(q, e)
<1>1. cache' = [cache EXCEPT ![q] = e] /\ disk' = e
  BY DEF Saves
<1>2. undone' = undone \cup {s \in Sessions : disk[s] = "archived" /\ e[s] # "archived"}
  BY DEF Saves
<1>3. \A r \in Procs : cache'[r] = IF r = q THEN e ELSE cache[r]
  BY <1>1 DEF TypeOK, RegistryOK
<1>4. cache' \in [Procs -> Registries \cup {Unread}]
  BY <1>1 DEF TypeOK, RegistryOK
<1>5. RegistryOK'
  BY <1>1, <1>3, <1>4, ProcParts DEF TypeOK, RegistryOK, AgentsOK, Running, Building
<1>6. undone' \in SUBSET Sessions
  BY <1>2 DEF TypeOK, HistoryOK
<1> QED BY <1>1, <1>2, <1>3, <1>5, <1>6 DEF SavedBy

LEMMA RecordType ==
  ASSUME TypeOK, Record
  PROVE  /\ TypeOK' /\ rot.step = "record" /\ rot.s \in Sessions
         /\ rot'.step = "pick" /\ rot'.todo = rot.todo /\ fileVars' = fileVars
         /\ \/ /\ rot.ok /\ SavedBy(Dream, [cache[Dream] EXCEPT ![rot.s] = "archived"])
            \/ /\ ~rot.ok /\ SavedBy(Dream, [cache[Dream] EXCEPT ![rot.s] = "kept"])
            \/ /\ ~rot.ok /\ UNCHANGED <<disk, cache, undone>>
<1>1. /\ rot.step = "record" /\ rot' = [rot EXCEPT !.step = "pick"] /\ rot.s \in Sessions
      /\ pc' = pc /\ fileVars' = fileVars
  BY DEF Record, TypeOK, RotOK, agentVars
<1>2. rot'.step = "pick" /\ rot'.todo = rot.todo /\ RotOK'
  BY <1>1 DEF Record, TypeOK, RotOK
<1>3. cache[Dream] \in Registries /\ Dream \in Procs /\ Dream \notin Agents
  BY <1>1, ProcParts DEF TypeOK, RegistryOK
<1>4. /\ [cache[Dream] EXCEPT ![rot.s] = "archived"] \in Registries
      /\ [cache[Dream] EXCEPT ![rot.s] = "kept"] \in Registries
  BY <1>1, <1>3 DEF Registries, Status
<1>5. AgentsOK' /\ SnapsOK' /\ FilesOK'
  BY DEF Record, TypeOK, AgentsOK, SnapsOK, FilesOK, agentVars, listVars, fileVars
<1>6. CASE rot.ok /\ Saves(Dream, [cache[Dream] EXCEPT ![rot.s] = "archived"])
  <2>1. /\ RegistryOK' /\ undone' \in SUBSET Sessions
        /\ SavedBy(Dream, [cache[Dream] EXCEPT ![rot.s] = "archived"])
    BY <1>1, <1>3, <1>4, <1>6, SavesType
  <2>2. HistoryOK'
    BY <2>1 DEF Record, TypeOK, HistoryOK, saveVars
  <2> QED BY <1>1, <1>2, <1>5, <1>6, <2>1, <2>2 DEF TypeOK
<1>7. CASE ~rot.ok /\ Saves(Dream, [cache[Dream] EXCEPT ![rot.s] = "kept"])
  <2>1. /\ RegistryOK' /\ undone' \in SUBSET Sessions
        /\ SavedBy(Dream, [cache[Dream] EXCEPT ![rot.s] = "kept"])
    BY <1>1, <1>3, <1>4, <1>7, SavesType
  <2>2. HistoryOK'
    BY <2>1 DEF Record, TypeOK, HistoryOK, saveVars
  <2> QED BY <1>1, <1>2, <1>5, <1>7, <2>1, <2>2 DEF TypeOK
<1>8. CASE ~rot.ok /\ UNCHANGED <<disk, cache, undone>>
  <2>1. RegistryOK' /\ HistoryOK'
    BY <1>1, <1>3, <1>8 DEF Record, TypeOK, RegistryOK, HistoryOK, saveVars
  <2> QED BY <1>1, <1>2, <1>5, <1>8, <2>1 DEF TypeOK
<1> QED BY <1>6, <1>7, <1>8 DEF Record

LEMMA CleanUpType ==
  ASSUME TypeOK, CleanUp
  PROVE  /\ TypeOK' /\ rot.step = "pick" /\ rot' = Idle /\ fileVars' = fileVars
         /\ \/ UNCHANGED <<disk, cache, undone>>
            \/ \E e : /\ SavedBy(Dream, e)
                      /\ \A s \in Sessions : e[s] \in {cache[Dream][s], "none"}
<1>1. rot.step = "pick" /\ rot' = Idle /\ pc' = pc /\ fileVars' = fileVars /\ rot'.step = "idle"
  BY DEF CleanUp, agentVars, Idle
<1>2. RotOK'
  <2>1. Idle \in [step : {"idle", "pick", "moved", "record"}, s : Sessions \cup {""},
                  todo : SUBSET Sessions, ok : BOOLEAN]
    BY DEF Idle
  <2> QED BY <1>1, <2>1 DEF CleanUp, TypeOK, RotOK
<1>3. cache[Dream] \in Registries /\ Dream \in Procs /\ Dream \notin Agents
  BY <1>1, ProcParts DEF TypeOK, RegistryOK
<1>4. AgentsOK' /\ SnapsOK' /\ FilesOK'
  BY DEF CleanUp, TypeOK, AgentsOK, SnapsOK, FilesOK, agentVars, listVars, fileVars
<1>5. PICK orphans \in SUBSET Sessions :
          IF orphans = {} THEN UNCHANGED <<disk, cache, undone>>
          ELSE Saves(Dream, [s \in Sessions |-> IF s \in orphans THEN "none" ELSE cache[Dream][s]])
  BY DEF CleanUp
<1>6. CASE UNCHANGED <<disk, cache, undone>>
  <2>1. RegistryOK' /\ HistoryOK'
    BY <1>1, <1>3, <1>6 DEF CleanUp, TypeOK, RegistryOK, HistoryOK, saveVars
  <2> QED BY <1>1, <1>2, <1>4, <1>6, <2>1 DEF TypeOK
<1>7. CASE orphans # {}
  <2> DEFINE e == [s \in Sessions |-> IF s \in orphans THEN "none" ELSE cache[Dream][s]]
  <2>1. e \in Registries /\ \A s \in Sessions : e[s] \in {cache[Dream][s], "none"}
    BY <1>3 DEF Registries, Status
  <2>2. Saves(Dream, e)
    BY <1>5, <1>7
  <2> HIDE DEF e
  <2>3. RegistryOK' /\ undone' \in SUBSET Sessions /\ SavedBy(Dream, e)
    BY <1>1, <1>3, <2>1, <2>2, SavesType
  <2>4. HistoryOK'
    BY <2>3 DEF CleanUp, TypeOK, HistoryOK, saveVars
  <2> QED BY <1>1, <1>2, <1>4, <2>1, <2>3, <2>4 DEF TypeOK
<1> QED BY <1>5, <1>6, <1>7

LEMMA DreamEndsType ==
  ASSUME TypeOK, DreamEnds
  PROVE  /\ TypeOK' /\ fileVars' = fileVars /\ rot' = Idle
         /\ \A q \in Procs : cache'[q] = IF q = Dream THEN Unread ELSE cache[q]
<1>1. /\ rot' = Idle /\ pc' = pc /\ fileVars' = fileVars /\ rot'.step = "idle"
      /\ cache' = [cache EXCEPT ![Dream] = Unread] /\ disk' = disk
  BY DEF DreamEnds, agentVars, Idle
<1>2. RotOK'
  <2>1. Idle \in [step : {"idle", "pick", "moved", "record"}, s : Sessions \cup {""},
                  todo : SUBSET Sessions, ok : BOOLEAN]
    BY DEF Idle
  <2>2. faults' \in Nat /\ rotations' = rotations
    BY Counters DEF DreamEnds, Fault, agentVars, fileVars
  <2> QED BY <1>1, <2>1, <2>2 DEF TypeOK, RotOK
<1>3. AgentsOK' /\ SnapsOK' /\ FilesOK'
  BY DEF DreamEnds, TypeOK, AgentsOK, SnapsOK, FilesOK, agentVars, listVars, fileVars
<1>4. RegistryOK' /\ \A q \in Procs : cache'[q] = IF q = Dream THEN Unread ELSE cache[q]
  BY <1>1, ProcParts DEF TypeOK, RegistryOK
<1>5. HistoryOK'
  BY DEF DreamEnds, TypeOK, HistoryOK, RotOK, saveVars
<1> QED BY <1>1, <1>2, <1>3, <1>4, <1>5 DEF TypeOK

LEMMA TypeStep ==
  ASSUME TypeOK, [Next]_vars
  PROVE  TypeOK'
<1>1. CASE UNCHANGED vars
  BY <1>1 DEF TypeOK, AgentsOK, SnapsOK, RegistryOK, FilesOK, RotOK, HistoryOK,
              vars, agentVars, listVars, fileVars, rotVars, saveVars
<1>2. ASSUME NEW p \in Agents,
             \/ Start(p) \/ Register(p) \/ StartFrom(p) \/ Turn(p) \/ Exit(p)
             \/ List(p) \/ Continue(p) \/ Scan(p) \/ Check(p) \/ TakeStamp(p) \/ LoadNumber(p)
      PROVE  TypeOK'
  BY <1>2, StartType, RegisterType, StartFromType, TurnType, ExitType,
     ListType, ContinueType, ScanType, CheckType, TakeStampType, LoadNumberType
<1>3. CASE Rotation
  BY <1>3, SelectType, MoveType, MakeLinkType, RecordType, CleanUpType, DreamEndsType DEF Rotation
<1> QED BY <1>1, <1>2, <1>3 DEF Next

(* Every variable keeps its type, the lists of a snapshot among them, and  *)
(* who runs has read the registry, and only the running have snapshots.    *)
THEOREM TypeCorrect == Spec => []TypeOK
<1>1. Init => TypeOK
  BY InitType
<1>2. TypeOK /\ [Next]_vars => TypeOK'
  BY TypeStep
<1> QED BY <1>1, <1>2, PTL DEF Spec

-----------------------------------------------------------------------------
(* The invariant behind the names of sessions                              *)

Real(f) == at[f].kind \in {"file", "empty"}

\* Some process has it that s is archived.
Archived(s) == disk[s] = "archived" \/ \E q \in Procs : cache[q][s] = "archived"

\* Where the link was is a file, of an agent that did not know of the archive.
LogWriter(s) == /\ at[<<"log", s>>].kind = "file"
                /\ \E q \in writers[s] : cache[q][s] # "archived"

InHand(s) == rot.step \in {"moved", "record"} /\ rot.s = s
Moved(s) == rot.step = "moved" /\ rot.s = s
Linked(s) == rot.step = "record" /\ rot.ok /\ rot.s = s
Rotated(s) == s \in rot.todo \/ InHand(s)

\* Who has it that a session is archived is right.
ArchivedOK(s) ==
    Archived(s) => /\ disk[s] = "archived" /\ Real(<<"arch", s>>) /\ ~Rotated(s)
                   /\ at[<<"log", s>>].kind = "link" \/ LogWriter(s)

LinksOK(s) == /\ at[<<"log", s>>].kind = "link" => disk[s] = "archived" \/ Linked(s)
              /\ at[<<"arch", s>>].kind # "link"

DreamKnows(s) ==
    cache[Dream] # Unread /\ disk[s] = "archived" => cache[Dream][s] = "archived"

RotationOK(s) ==
    /\ s \in rot.todo => cache[Dream][s] = "active" /\ Real(<<"log", s>>) /\ ~InHand(s)
    /\ InHand(s) => cache[Dream][s] = "active"
    /\ Moved(s) => Real(<<"arch", s>>) /\ at[<<"log", s>>].kind \in {"none", "file"}
    /\ Linked(s) => /\ Real(<<"arch", s>>)
                    /\ \/ at[<<"log", s>>].kind = "link"
                       \/ at[<<"log", s>>].kind = "file" /\ writers[s] # {}

BetweenOK(s) == Between(s) => Moved(s)

\* What was saved last is where the name leads, or will when it is linked.
NameOK(s) ==
    Cardinality(writers[s]) <= 1 /\ (s \in Old \/ writers[s] # {}) =>
        /\ at[<<"log", s>>].kind \in {"none", "link", "file"}
        /\ at[<<"log", s>>].kind = "none" => Moved(s)
        /\ at[<<"log", s>>].kind = "file" => at[<<"log", s>>] = Context(saved[s])
        /\ at[<<"log", s>>].kind # "file" => at[<<"arch", s>>] = Context(saved[s])

FateAt(s) == /\ ArchivedOK(s) /\ LinksOK(s) /\ DreamKnows(s) /\ RotationOK(s)
             /\ BetweenOK(s) /\ NameOK(s)

FateOK == \A s \in Sessions \ undone : FateAt(s)

\* The paths that an agent uses.
Uses(p, f) == \/ f \in ToSet(snap[p].paths) \/ f \in ToSet(found[p])
              \/ ctx[p] = f \/ (f # <<>> /\ snap[p].own = f)

\* The path in the archive is used by who knows of it.
KnowsArchive(p, s) == Uses(p, <<"arch", s>>) => cache[p][s] = "archived"

PathsOK(p, s) == /\ cache[p][s] = "archived" /\ Uses(p, <<"log", s>>) => LogWriter(s)
                 /\ Uses(p, <<"arch", s>>) => at[<<"arch", s>>].kind = "file"

\* Nobody knows of an agent that is not there yet.
NewOK(p) ==
    pc[p] = "new" =>
        /\ at[<<"log", p>>].kind = "none" /\ at[<<"arch", p>>].kind = "none"
        /\ disk[p] = "none" /\ \A q \in Procs : cache[q][p] \in {"none", "unread"}
        /\ \A q \in Agents : Uses(q, <<"log", p>>) \/ Uses(q, <<"arch", p>>) => q = p
        /\ ctx[p] = <<"log", p>>
        /\ writers[p] = {} /\ \A s \in Sessions : p \notin writers[s]
        /\ ~Rotated(p) /\ p \notin undone

OwnOK(p) == cache[p][p] # "archived" /\ (pc[p] \in Running => cache[p][p] = "active")

UsesOK == \A p \in Agents :
             /\ NewOK(p) /\ OwnOK(p)
             /\ \A s \in Sessions : KnowsArchive(p, s) /\ (s \notin undone => PathsOK(p, s))

Inv == TypeOK /\ FateOK /\ UsesOK

\* Nothing that is used is another.
SameUses == ctx' = ctx /\ \A q \in Agents : \A f : Uses(q, f)' <=> Uses(q, f)

LEMMA KeepsUses ==
  ASSUME ctx' = ctx, SameLists \/ snap' = snap, found' = found
  PROVE  SameUses
<1>1. \A q \in Agents : snap'[q].paths = snap[q].paths /\ snap'[q].own = snap[q].own
  BY DEF SameLists
<1>2. ASSUME NEW q \in Agents, NEW f PROVE Uses(q, f)' <=> Uses(q, f)
  BY <1>1 DEF Uses
<1> QED BY <1>2 DEF SameUses

\* Who does not run has no lists.
LEMMA NoLists ==
  ASSUME TypeOK, NEW p \in Agents, pc[p] \notin Running
  PROVE  \A f : Uses(p, f) <=> f = ctx[p]
<1>1. snap[p].own = <<>> /\ snap[p].paths = <<>> /\ found[p] = <<>>
  BY DEF TypeOK, SnapsOK, Running, Building
<1>2. \A f : f \notin ToSet(<<>>)
  BY DEF ToSet
<1> QED BY <1>1, <1>2 DEF Uses

LEMMA InitInv ==
  ASSUME Init
  PROVE  Inv
<1>1. TypeOK
  BY InitType
<1>2. /\ \A s \in Sessions : /\ disk[s] # "archived" /\ writers[s] = {}
                             /\ at[<<"arch", s>>].kind = "none"
                             /\ s \in Agents => at[<<"log", s>>].kind = "none" /\ disk[s] = "none"
                             /\ s \in Old => at[<<"log", s>>] = Context(saved[s])
      /\ \A q \in Procs : cache[q] = Unread
      /\ \A q \in Procs, s \in Sessions : cache[q][s] = "unread"
      /\ \A p \in Agents : /\ ctx[p] = <<"log", p>> /\ snap[p] = NoSnap /\ found[p] = <<>>
                           /\ pc[p] = "new" /\ pc[p] \notin Running
      /\ undone = {}
  <2>1. \A s \in Sessions : /\ s \in Agents => s \notin Old
                            /\ <<"log", s>>[1] = "log" /\ <<"log", s>>[2] = s
                            /\ <<"arch", s>>[1] # "log"
    BY ProcParts
  <2>2. \A s \in Sessions : s \in Old => at[<<"log", s>>] = Context({<<s, 1>>})
    BY <2>1, FileParts DEF Init
  <2>3. \A s \in Sessions : /\ at[<<"arch", s>>] = Absent
                            /\ s \in Agents => at[<<"log", s>>] = Absent
    BY <2>1, FileParts DEF Init
  <2>4. \A s \in Sessions : disk[s] = IF s \in Old THEN "active" ELSE "none"
    BY DEF Init
  <2>5. \A s \in Sessions : s \in Old => saved[s] = {<<s, 1>>}
    BY DEF Init
  <2>6. \A q \in Procs : cache[q] = Unread /\ \A s \in Sessions : cache[q][s] = "unread"
    BY DEF Init, Unread
  <2>7. /\ \A p \in Agents : /\ ctx[p] = <<"log", p>> /\ snap[p] = NoSnap /\ found[p] = <<>>
                             /\ pc[p] = "new" /\ pc[p] \notin Running
        /\ undone = {} /\ \A s \in Sessions : writers[s] = {}
    BY DEF Init, Running, Building
  <2> QED BY <2>1, <2>2, <2>3, <2>4, <2>5, <2>6, <2>7, FileKinds
<1>3. NoSnap.own = <<>> /\ \A f : f \notin ToSet(NoSnap.paths) /\ f \notin ToSet(<<>>)
  BY DEF NoSnap, ToSet
<1>4. rot.step = "idle" /\ rot.todo = {}
  BY DEF Init, Idle
<1>5. FateOK
  <2> SUFFICES ASSUME NEW s \in Sessions
               PROVE  /\ ArchivedOK(s) /\ LinksOK(s) /\ DreamKnows(s) /\ RotationOK(s)
                      /\ BetweenOK(s) /\ NameOK(s)
    BY DEF FateOK, FateAt
  <2>1. ~Archived(s)
    BY <1>2 DEF Archived
  <2>2. at[<<"log", s>>].kind \in {"none", "file"}
    <3>1. CASE s \in Agents
      BY <1>2, <3>1
    <3>2. CASE s \in Old
      <4>1. at[<<"log", s>>] = Context(saved[s])
        BY <1>2, <3>2
      <4> QED BY <4>1 DEF Context
    <3> QED BY <3>1, <3>2, ProcParts
  <2>3. NameOK(s)
    BY <1>2, FileKinds DEF NameOK
  <2> QED BY <1>2, <1>4, <2>1, <2>2, <2>3, ProcParts
          DEF ArchivedOK, LinksOK, DreamKnows, RotationOK, BetweenOK, Between, InHand, Moved, Linked
<1>6. UsesOK
  <2> SUFFICES ASSUME NEW p \in Agents
               PROVE  /\ NewOK(p) /\ OwnOK(p)
                      /\ \A s \in Sessions : KnowsArchive(p, s) /\ PathsOK(p, s)
    BY DEF UsesOK
  <2>1. \A q \in Agents : \A f : Uses(q, f) <=> f = <<"log", q>>
    BY <1>2, <1>3 DEF Uses
  <2>2. NewOK(p)
    BY <1>2, <1>4, <2>1, ProcParts DEF NewOK, Rotated, InHand
  <2> QED BY <1>2, <2>1, <2>2, ProcParts DEF OwnOK, KnowsArchive, PathsOK
<1> QED BY <1>1, <1>5, <1>6 DEF Inv

\* A session whose files and writers stay, that the rotation does not take up
\* or move or link, and that nobody comes to have as archived.
LEMMA OtherFate ==
  ASSUME NEW s \in Sessions, FateAt(s), writers[s] \subseteq Procs,
         at'[<<"log", s>>] = at[<<"log", s>>], at'[<<"arch", s>>] = at[<<"arch", s>>],
         writers'[s] = writers[s], saved'[s] = saved[s],
         disk'[s] = "archived" <=> disk[s] = "archived",
         \A q \in Procs : cache'[q][s] = "archived" => Archived(s),
         \A q \in writers[s] : cache'[q][s] = "archived" => cache[q][s] = "archived",
         s \in rot'.todo => s \in rot.todo, InHand(s)' => InHand(s),
         Moved(s)' <=> Moved(s), Linked(s)' <=> Linked(s),
         s \in rot'.todo \/ InHand(s)' => cache'[Dream][s] = cache[Dream][s],
         DreamKnows(s)'
  PROVE  FateAt(s)'
<1>1. /\ Archived(s)' => Archived(s)
      /\ LogWriter(s) => LogWriter(s)'
      /\ Real(<<"arch", s>>)' <=> Real(<<"arch", s>>)
      /\ Real(<<"log", s>>)' <=> Real(<<"log", s>>)
      /\ Rotated(s)' => Rotated(s)
      /\ Between(s)' <=> Between(s)
  BY DEF Archived, LogWriter, Real, Rotated, Between
<1>2. ArchivedOK(s)'
  BY <1>1 DEF FateAt, ArchivedOK
<1>3. LinksOK(s)'
  BY <1>1 DEF FateAt, LinksOK
<1>4. RotationOK(s)' /\ BetweenOK(s)'
  BY <1>1 DEF FateAt, RotationOK, BetweenOK
<1>5. NameOK(s)'
  BY <1>1 DEF FateAt, NameOK
<1> QED BY <1>2, <1>3, <1>4, <1>5 DEF FateAt

\* A session that nothing happens to.
LEMMA SameFate ==
  ASSUME NEW s \in Sessions, FateAt(s), writers[s] \subseteq Procs,
         at'[<<"log", s>>] = at[<<"log", s>>], at'[<<"arch", s>>] = at[<<"arch", s>>],
         disk'[s] = disk[s], \A q \in Procs : cache'[q][s] = cache[q][s],
         cache[Dream] = Unread => cache'[Dream] = Unread,
         rot' = rot, writers'[s] = writers[s], saved'[s] = saved[s]
  PROVE  FateAt(s)'
<1>1. /\ InHand(s)' <=> InHand(s)
      /\ Moved(s)' <=> Moved(s)
      /\ Linked(s)' <=> Linked(s)
  BY DEF InHand, Moved, Linked
<1>2. cache'[Dream][s] = cache[Dream][s] /\ \A q \in Procs : cache'[q][s] = "archived" => Archived(s)
  BY ProcParts DEF Archived
<1>3. DreamKnows(s)'
  BY <1>2 DEF FateAt, DreamKnows
<1>4. /\ disk'[s] = "archived" <=> disk[s] = "archived"
      /\ \A q \in writers[s] : cache'[q][s] = "archived" => cache[q][s] = "archived"
      /\ s \in rot'.todo => s \in rot.todo
  OBVIOUS
<1> QED BY <1>1, <1>2, <1>3, <1>4, OtherFate

\* What the steps that change no file, no rotation and no copy of the registry
\* leave as it was.
LEMMA QuietKeeps ==
  ASSUME Inv, TypeOK', fileVars' = fileVars, rot' = rot, cache' = cache, disk' = disk,
         \A p \in Agents : pc'[p] = pc[p] \/ (pc[p] \in Running /\ pc'[p] \in Running),
         saved' = saved, writers' = writers, undone' = undone,
         \A p \in Agents, s \in Sessions :
            /\ Uses(p, <<"log", s>>)' => \/ Uses(p, <<"log", s>>)
                                         \/ /\ s \notin undone /\ cache[p][s] = "archived" => LogWriter(s)
                                            /\ at[<<"log", s>>].kind # "none" /\ pc[p] # "new"
            /\ Uses(p, <<"arch", s>>)' => \/ Uses(p, <<"arch", s>>)
                                          \/ cache[p][s] = "archived" /\ at[<<"arch", s>>].kind = "file"
                                             /\ pc[p] # "new",
         \A p \in Agents : pc[p] = "new" => ctx'[p] = ctx[p]
  PROVE  Inv'
<1>1. FateOK'
  <2>1. ASSUME NEW s \in Sessions \ undone PROVE FateAt(s)'
    <3>1. FateAt(s) /\ at' = at
      BY DEF Inv, FateOK, fileVars
    <3>2. writers[s] \subseteq Procs
      BY ProcParts DEF Inv, TypeOK, HistoryOK
    <3> QED BY <3>1, <3>2, SameFate
  <2> QED BY <2>1 DEF FateOK
<1>2. UsesOK'
  <2> SUFFICES ASSUME NEW p \in Agents
               PROVE  /\ NewOK(p)' /\ OwnOK(p)'
                      /\ \A s \in Sessions : KnowsArchive(p, s)' /\ (s \notin undone => PathsOK(p, s)')
    BY DEF UsesOK
  <2>0. at' = at
    BY DEF fileVars
  <2>1. NewOK(p)'
    <3> SUFFICES ASSUME pc[p] = "new" PROVE NewOK(p)'
      BY DEF NewOK, Running, Building
    <3>1. NewOK(p) /\ p \in Sessions
      BY ProcParts DEF Inv, UsesOK
    <3>2. \A q \in Agents : Uses(q, <<"log", p>>)' \/ Uses(q, <<"arch", p>>)' => q = p
      BY <3>1 DEF NewOK
    <3>3. ~Rotated(p)'
      BY <3>1 DEF NewOK, Rotated, InHand
    <3> QED BY <2>0, <3>1, <3>2, <3>3 DEF NewOK
  <2>2. OwnOK(p)'
    BY DEF Inv, UsesOK, OwnOK
  <2>3. ASSUME NEW s \in Sessions PROVE KnowsArchive(p, s)' /\ (s \notin undone => PathsOK(p, s)')
    <3>1. LogWriter(s)' <=> LogWriter(s)
      BY <2>0 DEF LogWriter
    <3> QED BY <2>0, <3>1 DEF Inv, UsesOK, KnowsArchive, PathsOK
  <2> QED BY <2>1, <2>2, <2>3
<1> QED BY <1>1, <1>2 DEF Inv

\* A path that a list shows for the first time.
LEMMA OfferedPath ==
  ASSUME Inv, NEW p \in Agents, NEW f \in Offered(p), NEW s \in Sessions
  PROVE  /\ PathOf(p, f) = <<"log", s>> =>
               /\ s \notin undone /\ cache[p][s] = "archived" => LogWriter(s)
               /\ at[<<"log", s>>].kind # "none"
         /\ PathOf(p, f) = <<"arch", s>> =>
               cache[p][s] = "archived" /\ at[<<"arch", s>>].kind = "file"
<1>1. /\ PathOf(p, f) \in Files /\ PathOf(p, f)[2] = f[2] /\ Resolve(PathOf(p, f)) = f
      /\ PathOf(p, f) = <<"arch", f[2]>> => cache[p][f[2]] = "archived"
  BY PathLeads
<1>2. f \in Files /\ at[f].kind = "file"
  BY OfferedFiles
<1>3. ASSUME PathOf(p, f) = <<"log", s>>
      PROVE  /\ s \notin undone /\ cache[p][s] = "archived" => LogWriter(s)
             /\ at[<<"log", s>>].kind # "none"
  <2>1. f[2] = s
    BY <1>1, <1>3
  <2>2. at[<<"log", s>>].kind # "none"
    BY <1>1, <1>2, <1>3 DEF Resolve
  <2>3. ASSUME s \notin undone, cache[p][s] = "archived" PROVE LogWriter(s)
    <3>1. Entry(p, s) = <<"arch", s>>
      BY <2>3 DEF Entry
    <3>2. Resolve(<<"arch", s>>) = <<"arch", s>>
      BY DEF Resolve
    <3>3. f # <<"arch", s>>
      BY <1>3, <2>1, <2>3, <3>1, <3>2 DEF PathOf
    <3>4. f = <<"log", s>>
      BY <1>2, <2>1, <3>3, FileParts
    <3>5. ArchivedOK(s) /\ Archived(s)
      BY <2>3, ProcParts DEF Inv, FateOK, FateAt, Archived
    <3> QED BY <1>2, <3>4, <3>5 DEF ArchivedOK
  <2> QED BY <2>2, <2>3
<1>4. ASSUME PathOf(p, f) = <<"arch", s>>
      PROVE  cache[p][s] = "archived" /\ at[<<"arch", s>>].kind = "file"
  <2>1. f[2] = s
    BY <1>1, <1>4
  <2>2. f = <<"arch", s>>
    BY <1>1, <1>4 DEF Resolve
  <2> QED BY <1>1, <1>2, <1>4, <2>1, <2>2
<1> QED BY <1>3, <1>4

LEMMA BrowseKeeps ==
  ASSUME Inv, TypeOK', NEW p \in Agents, pc[p] \in Running,
         UNCHANGED <<fileVars, rot, cache, disk, saved, writers, undone>>,
         \A q \in Agents : pc'[q] = pc[q] \/ (pc[q] \in Running /\ pc'[q] \in Running),
         \A q \in Agents \ {p} : ctx'[q] = ctx[q] /\ \A f : Uses(q, f)' => Uses(q, f),
         \A f \in Files : Uses(p, f)' => Uses(p, f) \/ \E g \in Offered(p) : f = PathOf(p, g)
  PROVE  Inv'
<1>0. pc[p] # "new"
  BY DEF Running, Building
<1>1. ASSUME NEW q \in Agents, NEW s \in Sessions
      PROVE  /\ Uses(q, <<"log", s>>)' => \/ Uses(q, <<"log", s>>)
                                           \/ /\ s \notin undone /\ cache[q][s] = "archived" => LogWriter(s)
                                              /\ at[<<"log", s>>].kind # "none" /\ pc[q] # "new"
             /\ Uses(q, <<"arch", s>>)' => \/ Uses(q, <<"arch", s>>)
                                           \/ cache[q][s] = "archived" /\ at[<<"arch", s>>].kind = "file"
                                              /\ pc[q] # "new"
  <2>1. CASE q = p
    <3>1. <<"log", s>> \in Files /\ <<"arch", s>> \in Files
      BY FileParts
    <3>2. ASSUME Uses(p, <<"log", s>>)', ~Uses(p, <<"log", s>>)
          PROVE  /\ s \notin undone /\ cache[p][s] = "archived" => LogWriter(s)
                 /\ at[<<"log", s>>].kind # "none"
      <4>1. PICK g \in Offered(p) : PathOf(p, g) = <<"log", s>>
        BY <3>1, <3>2
      <4> QED BY <4>1, OfferedPath
    <3>3. ASSUME Uses(p, <<"arch", s>>)', ~Uses(p, <<"arch", s>>)
          PROVE  cache[p][s] = "archived" /\ at[<<"arch", s>>].kind = "file"
      <4>1. PICK g \in Offered(p) : PathOf(p, g) = <<"arch", s>>
        BY <3>1, <3>3
      <4> QED BY <4>1, OfferedPath
    <3> QED BY <1>0, <2>1, <3>2, <3>3
  <2>2. CASE q # p
    BY <2>2
  <2> QED BY <2>1, <2>2
<1>2. \A q \in Agents : pc[q] = "new" => ctx'[q] = ctx[q]
  BY <1>0
<1>3. /\ fileVars' = fileVars /\ rot' = rot /\ cache' = cache /\ disk' = disk
      /\ saved' = saved /\ writers' = writers /\ undone' = undone
  OBVIOUS
<1> QED BY <1>1, <1>2, <1>3, QuietKeeps

\* What was read is loaded from a path that is used or offered.
LEMMA LoadKeeps ==
  ASSUME Inv, TypeOK', NEW p \in Agents, pc[p] \in Running, NEW path, Load(p, path), QuietLists,
         \A q \in Agents : pc'[q] = pc[q] \/ (pc[q] \in Running /\ pc'[q] \in Running),
         Uses(p, path) \/ \E g \in Offered(p) : path = PathOf(p, g)
  PROVE  Inv'
<1>1. /\ ctx' = [ctx EXCEPT ![p] = path] /\ snap' = snap /\ found' = found
      /\ UNCHANGED <<fileVars, rot, cache, disk, saved, writers, undone>>
  BY DEF Load, QuietLists, rotVars, saveVars
<1>2. \A q \in Agents : ctx'[q] = IF q = p THEN path ELSE ctx[q]
  BY <1>1 DEF Inv, TypeOK, AgentsOK
<1>3. \A g \in Files : Uses(p, g)' => Uses(p, g) \/ \E h \in Offered(p) : g = PathOf(p, h)
  BY <1>1, <1>2 DEF Uses
<1>4. \A q \in Agents \ {p} : ctx'[q] = ctx[q] /\ \A f : Uses(q, f)' => Uses(q, f)
  BY <1>1, <1>2 DEF Uses
<1> QED BY <1>1, <1>3, <1>4, BrowseKeeps

LEMMA StartFromKeeps ==
  ASSUME Inv, NEW p \in Agents, StartFrom(p)
  PROVE  Inv'
<1>1. TypeOK' /\ QuietLists
  BY StartFromType DEF Inv
<1>2. PICK f \in Offered(p) : Load(p, PathOf(p, f))
  BY StartFromType DEF Inv
<1>3. pc[p] \in Running /\ pc' = pc
  BY DEF StartFrom, Running
<1> QED BY <1>1, <1>2, <1>3, LoadKeeps

\* The steps of a list.
LEMMA ListingKeeps ==
  ASSUME Inv, TypeOK', Listing, NEW p \in Agents, pc[p] \in Running,
         \A q \in Agents : pc'[q] = pc[q] \/ (pc[q] \in Running /\ pc'[q] \in Running),
         \A q \in Agents \ {p} : snap'[q] = snap[q] /\ found'[q] = found[q],
         ToSet(snap'[p].paths) \subseteq ToSet(snap[p].paths) \cup ToSet(found[p]),
         snap'[p].own \in {snap[p].own, ctx[p]},
         \/ ToSet(found'[p]) \subseteq ToSet(found[p])
         \/ ToSet(found'[p]) \subseteq {PathOf(p, f) : f \in Offered(p)}
  PROVE  Inv'
<1>1. ctx' = ctx /\ UNCHANGED <<fileVars, rot, cache, disk, saved, writers, undone>>
  BY DEF Listing, rotVars, saveVars
<1>2. \A f \in Files : Uses(p, f)' => Uses(p, f) \/ \E g \in Offered(p) : f = PathOf(p, g)
  BY <1>1 DEF Uses
<1>3. \A q \in Agents \ {p} : ctx'[q] = ctx[q] /\ \A f : Uses(q, f)' => Uses(q, f)
  BY <1>1 DEF Uses
<1> QED BY <1>1, <1>2, <1>3, BrowseKeeps

LEMMA StepOf ==
  ASSUME TypeOK, NEW p \in Agents, NEW to \in Running, pc[p] \in Running,
         pc' = [pc EXCEPT ![p] = to]
  PROVE  \A q \in Agents : pc'[q] = pc[q] \/ (pc[q] \in Running /\ pc'[q] \in Running)
BY DEF TypeOK, AgentsOK

LEMMA RebuildKeeps ==
  ASSUME Inv, NEW p \in Agents, pc[p] = "running", Rebuild(p), found' = found, Listing
  PROVE  Inv'
<1>1. /\ TypeOK' /\ snap'[p].own = Own(p) /\ snap'[p].paths = <<>>
      /\ \A q \in Agents \ {p} : snap'[q] = snap[q]
  BY RebuildType DEF Inv
<1>2. pc' = [pc EXCEPT ![p] = "scan"] /\ "scan" \in Running /\ pc[p] \in Running
  BY DEF Rebuild, Running, Building
<1>3. Own(p) \in {snap[p].own, ctx[p]} /\ ToSet(<<>>) = {}
  BY DEF Own, ToSet
<1>4. \A q \in Agents : pc'[q] = pc[q] \/ (pc[q] \in Running /\ pc'[q] \in Running)
  BY <1>2, StepOf DEF Inv
<1> QED BY <1>1, <1>2, <1>3, <1>4, ListingKeeps

LEMMA ListKeeps ==
  ASSUME Inv, NEW p \in Agents, List(p) \/ Continue(p)
  PROVE  Inv'
<1>1. CASE Rebuild(p)
  <2>1. pc[p] = "running" /\ found' = found /\ Listing
    BY ListType, ContinueType DEF Inv
  <2> QED BY <1>1, <2>1, RebuildKeeps
<1>2. CASE Continue(p) /\ snap' = snap /\ pc' = [pc EXCEPT ![p] = "load"]
  <2>1. pc[p] = "running" /\ found' = found /\ Listing /\ TypeOK'
    BY <1>2, ContinueType DEF Inv
  <2>2. "load" \in Running /\ pc[p] \in Running
    BY <2>1 DEF Running
  <2>3. \A q \in Agents : pc'[q] = pc[q] \/ (pc[q] \in Running /\ pc'[q] \in Running)
    BY <1>2, <2>2, StepOf DEF Inv
  <2> QED BY <1>2, <2>1, <2>2, <2>3, ListingKeeps
<1> QED BY <1>1, <1>2, ListType, ContinueType DEF Inv

LEMMA ScanKeeps ==
  ASSUME Inv, NEW p \in Agents, Scan(p) \/ Check(p)
  PROVE  Inv'
<1>1. /\ TypeOK' /\ Listing /\ snap' = snap
      /\ \A q \in Agents \ {p} : found'[q] = found[q]
      /\ \/ ToSet(found'[p]) \subseteq ToSet(found[p])
         \/ ToSet(found'[p]) \subseteq {PathOf(p, f) : f \in Offered(p)}
      /\ pc[p] \in {"scan", "check"} /\ \E to \in {"check", "stamp"} : pc' = [pc EXCEPT ![p] = to]
  <2>1. CASE Scan(p)
    BY <2>1, ScanType DEF Inv
  <2>2. CASE Check(p)
    BY <2>2, CheckType DEF Inv
  <2> QED BY <2>1, <2>2
<1>2. PICK to \in {"check", "stamp"} : pc' = [pc EXCEPT ![p] = to]
  BY <1>1
<1>3. to \in Running /\ pc[p] \in Running
  BY <1>1 DEF Running, Building
<1>4. \A q \in Agents : pc'[q] = pc[q] \/ (pc[q] \in Running /\ pc'[q] \in Running)
  BY <1>2, <1>3, StepOf DEF Inv
<1> QED BY <1>1, <1>3, <1>4, ListingKeeps

LEMMA TakeStampKeeps ==
  ASSUME Inv, NEW p \in Agents, TakeStamp(p)
  PROVE  Inv'
<1>1. /\ TypeOK' /\ Listing /\ pc[p] = "stamp" /\ pc'[p] \in {"running", "load"}
      /\ snap'[p].paths = found[p] /\ snap'[p].own = snap[p].own /\ found'[p] = <<>>
      /\ \A q \in Agents \ {p} : snap'[q] = snap[q] /\ found'[q] = found[q] /\ pc'[q] = pc[q]
  BY TakeStampType DEF Inv
<1>2. pc[p] \in Running /\ pc'[p] \in Running /\ ToSet(<<>>) = {}
  BY <1>1 DEF Running, Building, ToSet
<1>3. \A q \in Agents : pc'[q] = pc[q] \/ (pc[q] \in Running /\ pc'[q] \in Running)
  BY <1>1, <1>2
<1> QED BY <1>1, <1>2, <1>3, ListingKeeps

LEMMA LoadNumberKeeps ==
  ASSUME Inv, NEW p \in Agents, LoadNumber(p)
  PROVE  Inv'
<1>1. /\ TypeOK' /\ QuietLists /\ pc[p] = "load" /\ pc' = [pc EXCEPT ![p] = "running"]
  BY LoadNumberType DEF Inv
<1>2. pc[p] \in Running /\ "running" \in Running
  BY <1>1 DEF Running
<1>3. \A q \in Agents : pc'[q] = pc[q] \/ (pc[q] \in Running /\ pc'[q] \in Running)
  BY <1>1, <1>2, StepOf DEF Inv
<1>4. CASE Listing
  BY <1>1, <1>2, <1>3, <1>4, ListingKeeps DEF QuietLists
<1>5. ASSUME NEW path \in ToSet(snap[p].paths), Load(p, path) PROVE Inv'
  <2>1. Uses(p, path)
    BY <1>5 DEF Uses
  <2> QED BY <1>1, <1>2, <1>3, <1>5, <2>1, LoadKeeps
<1> QED BY <1>4, <1>5, LoadNumberType DEF Inv

LEMMA WritersType ==
  ASSUME TypeOK, NEW s \in Sessions
  PROVE  writers[s] \subseteq Agents /\ writers[s] \subseteq Procs /\ Dream \notin writers[s]
BY ProcParts DEF TypeOK, HistoryOK

LEMMA UnreadType == \A s \in Sessions : Unread[s] = "unread"
BY DEF Unread

LEMMA StartKeeps ==
  ASSUME Inv, NEW p \in Agents, Start(p)
  PROVE  Inv'
<1> DEFINE log == <<"log", p>>
<1>1. /\ TypeOK /\ TypeOK'
      /\ \A g \in Files : at'[g] = IF g = log THEN Placeholder ELSE at[g]
      /\ cache' = [cache EXCEPT ![p] = disk']
  BY StartType DEF Inv
<1>2. \/ disk' = disk
      \/ /\ \A s \in Sessions : disk[s] = "none"
         /\ \A s \in Sessions : disk'[s] = IF at'[<<"log", s>>].kind # "none"
                                           THEN "active" ELSE "none"
  BY StartType DEF Inv
<1>3. /\ pc[p] = "new" /\ pc' = [pc EXCEPT ![p] = "read"] /\ ctx' = ctx /\ rot' = rot
      /\ saved' = saved /\ writers' = writers /\ undone' = undone
      /\ found' = found
  BY DEF Start, rotVars, saveVars
<1>4. p \in Procs /\ p \in Sessions /\ p # Dream /\ Dream \in Procs
  BY ProcParts
<1>5. \A q \in Procs : cache'[q] = IF q = p THEN disk' ELSE cache[q]
  BY <1>1 DEF TypeOK, RegistryOK
<1>6. \A s \in Sessions : disk'[s] = "archived" <=> disk[s] = "archived"
  BY <1>2
<1>7. \A q \in Agents : \A f : Uses(q, f)' <=> Uses(q, f)
  <2>1. SameLists
    BY StartType DEF Inv
  <2> QED BY <1>3, <2>1, KeepsUses DEF SameUses
<1>8. NewOK(p) /\ FateOK /\ UsesOK
  BY DEF Inv, UsesOK
<1>9. ASSUME NEW s \in Sessions, s # p
      PROVE  /\ at'[<<"log", s>>] = at[<<"log", s>>] /\ at'[<<"arch", s>>] = at[<<"arch", s>>]
             /\ p \notin writers[s]
             /\ LogWriter(s) => LogWriter(s)'
  <2>1. at'[<<"log", s>>] = at[<<"log", s>>] /\ at'[<<"arch", s>>] = at[<<"arch", s>>]
    BY <1>1, <1>9, FileParts
  <2>2. p \notin writers[s]
    BY <1>3, <1>8 DEF NewOK
  <2>3. ASSUME LogWriter(s) PROVE LogWriter(s)'
    <3>1. PICK q \in writers[s] : cache[q][s] # "archived"
      BY <2>3 DEF LogWriter
    <3>2. cache'[q] = cache[q]
      BY <1>1, <1>5, <2>2, <3>1, WritersType
    <3> QED BY <1>3, <2>1, <2>3, <3>1, <3>2 DEF LogWriter
  <2> QED BY <2>1, <2>2, <2>3
<1>10. /\ at[log].kind = "none" /\ disk[p] = "none" /\ ~Rotated(p) /\ writers[p] = {}
       /\ \A q \in Procs : cache[q][p] \in {"none", "unread"} /\ at[<<"arch", p>>].kind = "none"
  BY <1>3, <1>8 DEF NewOK
<1>11. at'[log] = Placeholder /\ at'[<<"arch", p>>] = at[<<"arch", p>>]
  BY <1>1, <1>4, FileParts
<1>12. ASSUME NEW s \in Sessions \ undone PROVE FateAt(s)'
  <2>1. FateAt(s) /\ s \in Sessions
    BY <1>8 DEF FateOK
  <2>2. CASE s = p
    <3>1. ~Archived(p)' /\ ~Rotated(p)'
      BY <1>3, <1>4, <1>5, <1>6, <1>10 DEF Archived, Rotated, InHand
    <3>2. /\ p \notin rot'.todo /\ ~InHand(p)' /\ ~Moved(p)' /\ ~Linked(p)' /\ p \notin Old
          /\ writers'[p] = {}
      BY <1>3, <1>10, <3>1, ProcParts DEF Rotated, InHand, Moved, Linked
    <3>3. at'[log].kind = "empty" /\ at'[<<"arch", p>>].kind = "none"
      BY <1>10, <1>11, <1>4, FileKinds
    <3>4. ArchivedOK(p)' /\ RotationOK(p)' /\ NameOK(p)'
      BY <3>1, <3>2 DEF ArchivedOK, RotationOK, NameOK
    <3>5. LinksOK(p)' /\ BetweenOK(p)' /\ DreamKnows(p)'
      BY <1>6, <1>10, <3>3, <1>4 DEF LinksOK, BetweenOK, Between, DreamKnows
    <3> QED BY <2>2, <3>4, <3>5 DEF FateAt
  <2>3. CASE s # p
    <3>1. /\ InHand(s)' <=> InHand(s)
          /\ Moved(s)' <=> Moved(s)
          /\ Linked(s)' <=> Linked(s)
      BY <1>3 DEF InHand, Moved, Linked
    <3>2. \A q \in Procs : cache'[q][s] = "archived" => Archived(s)
      BY <1>5, <1>6, <2>1 DEF Archived
    <3>3. \A q \in writers[s] : cache'[q][s] = "archived" => cache[q][s] = "archived"
      <4> SUFFICES ASSUME NEW q \in writers[s] PROVE cache'[q] = cache[q]
        OBVIOUS
      <4>1. q \in Procs /\ writers[s] \subseteq Procs
        BY <1>1, <2>1, WritersType
      <4>2. p \notin writers[s]
        BY <1>9, <2>1, <2>3
      <4> QED BY <1>5, <4>1, <4>2
    <3>4. cache'[Dream] = cache[Dream] /\ DreamKnows(s)'
      BY <1>4, <1>5, <1>6, <2>1 DEF DreamKnows, FateAt
    <3>5. /\ at'[<<"log", s>>] = at[<<"log", s>>] /\ at'[<<"arch", s>>] = at[<<"arch", s>>]
          /\ writers'[s] = writers[s] /\ saved'[s] = saved[s] /\ writers[s] \subseteq Procs
          /\ disk'[s] = "archived" <=> disk[s] = "archived"
          /\ s \in rot'.todo <=> s \in rot.todo
      BY <1>1, <1>3, <1>6, <1>9, <2>1, <2>3, WritersType
    <3> QED BY <2>1, <3>1, <3>2, <3>3, <3>4, <3>5, OtherFate
  <2> QED BY <2>2, <2>3
<1>13. ASSUME NEW q \in Agents
       PROVE  /\ NewOK(q)' /\ OwnOK(q)'
              /\ \A s \in Sessions : KnowsArchive(q, s)' /\ (s \notin undone' => PathsOK(q, s)')
  <2>1. NewOK(q) /\ OwnOK(q) /\ q \in Procs /\ q \in Sessions
    BY <1>8, ProcParts DEF UsesOK
  <2>2. NewOK(q)'
    <3> SUFFICES ASSUME pc'[q] = "new" PROVE NewOK(q)'
      BY DEF NewOK
    <3>1. q # p /\ pc[q] = "new"
      BY <1>1, <1>3 DEF TypeOK, AgentsOK
    <3>2. at'[<<"log", q>>] = at[<<"log", q>>] /\ at'[<<"arch", q>>] = at[<<"arch", q>>]
      BY <1>9, <2>1, <3>1
    <3>3. disk[q] = "none" /\ disk'[q] = "none"
      BY <1>2, <2>1, <3>1, <3>2 DEF NewOK
    <3>4. \A r \in Procs : cache'[r][q] \in {"none", "unread"}
      BY <1>5, <2>1, <3>1, <3>3 DEF NewOK
    <3>5. ~Rotated(q)'
      BY <1>3, <2>1, <3>1 DEF NewOK, Rotated, InHand
    <3> QED BY <1>3, <1>7, <2>1, <3>1, <3>2, <3>3, <3>4, <3>5 DEF NewOK
  <2>3. OwnOK(q)'
    <3>1. CASE q = p
      BY <1>1, <1>3, <1>4, <1>5, <1>6, <1>10, <3>1 DEF OwnOK, TypeOK, AgentsOK, Running, Building
    <3>2. CASE q # p
      BY <1>1, <1>3, <1>5, <2>1, <3>2 DEF OwnOK, TypeOK, AgentsOK
    <3> QED BY <3>1, <3>2
  <2>4. ASSUME NEW s \in Sessions PROVE KnowsArchive(q, s)' /\ (s \notin undone' => PathsOK(q, s)')
    <3>1. KnowsArchive(q, s) /\ (s \notin undone => PathsOK(q, s))
      BY <1>8 DEF UsesOK
    <3>2. CASE q = p
      <4>1. cache[p] = Unread /\ cache[p][s] # "archived"
        BY <1>1, <1>3, UnreadType DEF TypeOK, RegistryOK
      <4>2. ~Uses(p, <<"arch", s>>)
        BY <3>1, <3>2, <4>1 DEF KnowsArchive
      <4>3. ASSUME cache'[p][s] = "archived", s \notin undone PROVE ~Uses(p, <<"log", s>>)
        <5>1. disk[s] = "archived" /\ s # p
          BY <1>4, <1>5, <1>6, <1>10, <4>3
        <5>2. ctx[p] = <<"log", p>> /\ pc[p] \notin Running
          BY <1>1, <1>3, <1>8 DEF NewOK, Running, Building
        <5>3. \A f : Uses(p, f) <=> f = ctx[p]
          BY <1>1, <5>2, NoLists
        <5> QED BY <5>1, <5>2, <5>3
      <4> QED BY <1>3, <1>7, <3>2, <4>2, <4>3 DEF KnowsArchive, PathsOK
    <3>3. CASE q # p
      <4>1. cache'[q] = cache[q]
        BY <1>5, <2>1, <3>3
      <4>2. CASE s = p
        <5>1. ~Uses(q, <<"log", s>>) /\ ~Uses(q, <<"arch", s>>)
          BY <1>3, <1>8, <3>3, <4>2 DEF NewOK
        <5> QED BY <1>7, <5>1 DEF KnowsArchive, PathsOK
      <4>3. CASE s # p
        <5>1. /\ at'[<<"arch", s>>] = at[<<"arch", s>>] /\ (LogWriter(s) => LogWriter(s)')
              /\ cache'[q][s] = cache[q][s] /\ undone' = undone
          BY <1>3, <1>9, <4>1, <4>3
        <5>2. /\ Uses(q, <<"log", s>>)' <=> Uses(q, <<"log", s>>)
              /\ Uses(q, <<"arch", s>>)' <=> Uses(q, <<"arch", s>>)
          BY <1>7
        <5> QED BY <3>1, <5>1, <5>2 DEF KnowsArchive, PathsOK
      <4> QED BY <4>2, <4>3
    <3> QED BY <3>2, <3>3
  <2> QED BY <2>2, <2>3, <2>4
<1>14. FateOK'
  BY <1>3, <1>12 DEF FateOK
<1>15. UsesOK'
  BY <1>13 DEF UsesOK
<1> QED BY <1>1, <1>14, <1>15 DEF Inv

\* A session whose record is not undone by a process that saves the registry.
LEMMA SavedFate ==
  ASSUME Inv, NEW q \in Procs, NEW e, SavedBy(q, e), NEW s \in Sessions, s \notin undone',
         e[s] = "archived" => cache[q][s] = "archived"
  PROVE  /\ s \notin undone /\ FateAt(s)
         /\ disk'[s] = "archived" <=> disk[s] = "archived"
         /\ \A r \in Procs : cache'[r][s] = "archived" => cache[r][s] = "archived" /\ Archived(s)
         /\ DreamKnows(s)'
<1>1. s \notin undone /\ FateAt(s) /\ (disk[s] = "archived" => e[s] = "archived")
  BY DEF SavedBy, Inv, FateOK
<1>2. e[s] = "archived" => disk[s] = "archived" /\ Archived(s)
  BY <1>1 DEF Archived, FateAt, ArchivedOK
<1>3. disk'[s] = e[s] /\ \A r \in Procs : cache'[r] = IF r = q THEN e ELSE cache[r]
  BY DEF SavedBy
<1>4. \A r \in Procs : cache'[r][s] = "archived" => cache[r][s] = "archived" /\ Archived(s)
  BY <1>2, <1>3 DEF Archived
<1>5. DreamKnows(s)'
  BY <1>1, <1>2, <1>3, ProcParts DEF DreamKnows, FateAt
<1> QED BY <1>1, <1>2, <1>3, <1>4, <1>5

LEMMA RegisterKeeps ==
  ASSUME Inv, NEW p \in Agents, Register(p)
  PROVE  Inv'
<1> DEFINE e == [cache[p] EXCEPT ![p] = "active"]
<1>1. TypeOK /\ TypeOK' /\ FateOK /\ UsesOK
  BY RegisterType DEF Inv
<1>2. /\ p \in Procs /\ p \in Sessions /\ p # Dream /\ cache[p] \in Registries
      /\ pc[p] \in {"read", "running"} /\ pc' = [pc EXCEPT ![p] = "running"]
  BY <1>1, ProcParts DEF Register, TypeOK, RegistryOK, Running
<1>3. /\ rot' = rot /\ at' = at /\ ctx' = ctx /\ snap' = snap /\ saved' = saved /\ writers' = writers
      /\ found' = found
  BY DEF Register, fileVars, rotVars, listVars, saveVars
<1>4. /\ e \in Registries /\ e[p] = "active"
      /\ \A s \in Sessions \ {p} : e[s] = cache[p][s]
  BY <1>2 DEF Registries, Status
<1>5. SavedBy(p, e)
  <2>1. cache' = [cache EXCEPT ![p] = e] /\ disk' = e
    BY DEF Register, Saves
  <2>2. undone' = undone \cup {s \in Sessions : disk[s] = "archived" /\ e[s] # "archived"}
    BY DEF Register, Saves
  <2> HIDE DEF e
  <2>3. undone \subseteq Sessions
    BY <1>1 DEF TypeOK, HistoryOK
  <2> QED BY <1>1, <1>4, <2>1, <2>2, <2>3 DEF SavedBy, TypeOK, RegistryOK
<1> HIDE DEF e
<1>6. ASSUME NEW s \in Sessions, s \notin undone' PROVE FateAt(s)'
  <2>1. e[s] = "archived" => cache[p][s] = "archived"
    BY <1>4
  <2>2. /\ s \notin undone /\ FateAt(s)
        /\ disk'[s] = "archived" <=> disk[s] = "archived"
        /\ \A r \in Procs : cache'[r][s] = "archived" => cache[r][s] = "archived" /\ Archived(s)
        /\ DreamKnows(s)'
    BY <1>2, <1>5, <1>6, <2>1, SavedFate
  <2>3. /\ InHand(s)' <=> InHand(s)
        /\ Moved(s)' <=> Moved(s)
        /\ Linked(s)' <=> Linked(s)
    BY <1>3 DEF InHand, Moved, Linked
  <2>4. cache'[Dream] = cache[Dream] /\ writers[s] \subseteq Procs
    BY <1>1, <1>2, <1>5, ProcParts, WritersType DEF SavedBy
  <2> QED BY <1>3, <2>2, <2>3, <2>4, OtherFate
<1>7. \A q \in Agents : \A f : Uses(q, f)' <=> Uses(q, f)
  BY <1>3, KeepsUses DEF SameUses
<1>8. \A q \in Procs : cache'[q] = IF q = p THEN e ELSE cache[q]
  BY <1>5 DEF SavedBy
<1>9. ASSUME NEW s \in Sessions PROVE LogWriter(s) => LogWriter(s)'
  <2>1. \A q \in Procs : cache[q][s] # "archived" => cache'[q][s] # "archived"
    BY <1>4, <1>8
  <2>2. writers[s] \subseteq Procs
    BY <1>1, WritersType
  <2> QED BY <1>3, <2>1, <2>2 DEF LogWriter
<1>10. ASSUME NEW q \in Agents
       PROVE  /\ NewOK(q)' /\ OwnOK(q)'
              /\ \A s \in Sessions : KnowsArchive(q, s)' /\ (s \notin undone' => PathsOK(q, s)')
  <2>1. NewOK(q) /\ OwnOK(q) /\ q \in Procs /\ q \in Sessions
    BY <1>1, ProcParts DEF UsesOK
  <2>2. NewOK(q)'
    <3> SUFFICES ASSUME pc'[q] = "new" PROVE NewOK(q)'
      BY DEF NewOK
    <3>1. q # p /\ pc[q] = "new"
      BY <1>1, <1>2 DEF TypeOK, AgentsOK
    <3>2. e[q] = "none" /\ disk'[q] = "none"
      <4>1. e[q] = cache[p][q] /\ e[q] \in Status /\ cache[p][q] \in {"none", "unread"}
        BY <1>2, <1>4, <2>1, <3>1 DEF NewOK, Registries
      <4> QED BY <1>5, <4>1 DEF Status, SavedBy
    <3>3. \A r \in Procs : cache'[r][q] \in {"none", "unread"}
      BY <1>8, <2>1, <3>1, <3>2 DEF NewOK
    <3>4. ~Rotated(q)'
      BY <1>3, <2>1, <3>1 DEF NewOK, Rotated, InHand
    <3>5. q \notin undone'
      BY <1>5, <2>1, <3>1 DEF SavedBy, NewOK
    <3> QED BY <1>3, <1>7, <2>1, <3>1, <3>2, <3>3, <3>4, <3>5 DEF NewOK
  <2>3. OwnOK(q)'
    <3>1. CASE q = p
      BY <1>2, <1>4, <1>8, <3>1 DEF OwnOK
    <3>2. CASE q # p
      BY <1>1, <1>2, <1>8, <2>1, <3>2 DEF OwnOK, TypeOK, AgentsOK
    <3> QED BY <3>1, <3>2
  <2>4. ASSUME NEW s \in Sessions PROVE KnowsArchive(q, s)' /\ (s \notin undone' => PathsOK(q, s)')
    <3>1. KnowsArchive(q, s) /\ (s \notin undone => PathsOK(q, s)) /\ (s \in undone => s \in undone')
      BY <1>1, <1>5 DEF UsesOK, SavedBy
    <3>2. cache'[q][s] = "archived" => cache[q][s] = "archived"
      BY <1>4, <1>8, <2>1
    <3>3. cache[q][s] = "archived" => cache'[q][s] = "archived"
      <4>1. CASE q = p /\ s = p
        BY <2>1, <4>1 DEF OwnOK
      <4>2. CASE ~(q = p /\ s = p)
        BY <1>4, <1>8, <2>1, <4>2
      <4> QED BY <4>1, <4>2
    <3>4. /\ Uses(q, <<"log", s>>)' <=> Uses(q, <<"log", s>>)
          /\ Uses(q, <<"arch", s>>)' <=> Uses(q, <<"arch", s>>)
      BY <1>7
    <3> QED BY <1>3, <1>9, <3>1, <3>2, <3>3, <3>4 DEF KnowsArchive, PathsOK
  <2> QED BY <2>2, <2>3, <2>4
<1>11. FateOK'
  BY <1>6 DEF FateOK
<1>12. UsesOK'
  BY <1>10 DEF UsesOK
<1> QED BY <1>1, <1>11, <1>12 DEF Inv

\* What the rotation does to the registry and to itself leaves what agents use.
LEMMA DreamUses ==
  ASSUME Inv, at' = at, SameUses, pc' = pc, writers' = writers,
         \A q \in Agents : cache'[q] = cache[q], \A s \in undone : s \in undone',
         \A p \in Agents : pc[p] = "new" => /\ disk'[p] = "none" /\ ~Rotated(p)' /\ p \notin undone'
                                            /\ cache'[Dream][p] \in {"none", "unread"}
  PROVE  UsesOK'
<1>1. TypeOK /\ FateOK /\ UsesOK
  BY DEF Inv
<1>2. ctx' = ctx /\ \A q \in Agents : \A f : Uses(q, f)' <=> Uses(q, f)
  BY DEF SameUses
<1>3. ASSUME NEW q \in Agents
      PROVE  /\ NewOK(q)' /\ OwnOK(q)'
             /\ \A s \in Sessions : KnowsArchive(q, s)' /\ (s \notin undone' => PathsOK(q, s)')
  <2>1. NewOK(q) /\ OwnOK(q) /\ q \in Procs /\ q \in Sessions
    BY <1>1, ProcParts DEF UsesOK
  <2>2. NewOK(q)'
    <3> SUFFICES ASSUME pc[q] = "new" PROVE NewOK(q)'
      BY DEF NewOK
    <3>1. \A r \in Procs : cache'[r][q] \in {"none", "unread"}
      BY <2>1, ProcParts DEF NewOK
    <3> QED BY <1>2, <2>1, <3>1 DEF NewOK
  <2>3. OwnOK(q)'
    BY <2>1 DEF OwnOK
  <2>4. ASSUME NEW s \in Sessions PROVE KnowsArchive(q, s)' /\ (s \notin undone' => PathsOK(q, s)')
    <3>1. KnowsArchive(q, s) /\ (s \notin undone => PathsOK(q, s)) /\ (s \in undone => s \in undone')
      BY <1>1 DEF UsesOK
    <3>2. LogWriter(s)' <=> LogWriter(s)
      <4>1. \A r \in writers[s] : cache'[r] = cache[r]
        BY <1>1, WritersType
      <4> QED BY <4>1 DEF LogWriter
    <3>3. /\ Uses(q, <<"log", s>>)' <=> Uses(q, <<"log", s>>)
          /\ Uses(q, <<"arch", s>>)' <=> Uses(q, <<"arch", s>>)
          /\ cache'[q] = cache[q]
      BY <1>2
    <3> QED BY <3>1, <3>2, <3>3 DEF KnowsArchive, PathsOK
  <2> QED BY <2>2, <2>3, <2>4
<1> QED BY <1>3 DEF UsesOK

LEMMA RecordKeeps ==
  ASSUME Inv, Record
  PROVE  Inv'
<1>1. /\ TypeOK /\ TypeOK' /\ FateOK /\ UsesOK
      /\ rot.step = "record" /\ rot.s \in Sessions
      /\ rot'.step = "pick" /\ rot'.todo = rot.todo /\ at' = at
  BY RecordType DEF Inv, fileVars
<1>2. /\ SameUses /\ saved' = saved /\ writers' = writers /\ pc' = pc
  BY KeepsUses DEF Record, agentVars, listVars, saveVars
<1>3. /\ cache[Dream] \in Registries /\ Dream \in Procs
      /\ cache[Dream] # Unread \/ Sessions = {}
  BY <1>1, ProcParts, UnreadType DEF TypeOK, RegistryOK, Registries, Status
<1>4. \A p \in Agents : pc[p] = "new" => /\ p \in Sessions /\ p # rot.s /\ disk[p] = "none" /\ p \notin rot.todo
                                         /\ cache[Dream][p] \in {"none", "unread"} /\ p \notin undone
  BY <1>1, ProcParts DEF UsesOK, NewOK, Rotated, InHand
<1>5. \A s : ~InHand(s)' /\ ~Moved(s)' /\ ~Linked(s)' /\ ~Moved(s)
  BY <1>1 DEF InHand, Moved, Linked
<1>6. ASSUME NEW e, SavedBy(Dream, e), NEW v \in {"archived", "kept"}, rot.ok <=> v = "archived",
             e[rot.s] = v, \A s \in Sessions \ {rot.s} : e[s] = cache[Dream][s]
      PROVE  Inv'
  <2>1. \A q \in Agents : cache'[q] = cache[q]
    BY <1>6, ProcParts DEF SavedBy
  <2>2. \A p \in Agents : pc[p] = "new" => /\ disk'[p] = "none" /\ ~Rotated(p)' /\ p \notin undone'
                                           /\ cache'[Dream][p] \in {"none", "unread"}
    <3> SUFFICES ASSUME NEW p \in Agents, pc[p] = "new"
                 PROVE  /\ disk'[p] = "none" /\ ~Rotated(p)' /\ p \notin undone'
                        /\ cache'[Dream][p] \in {"none", "unread"}
      OBVIOUS
    <3>1. e[p] = cache[Dream][p] /\ e[p] \in Status /\ disk'[p] = e[p] /\ cache'[Dream][p] = e[p]
      BY <1>3, <1>4, <1>6 DEF SavedBy, Registries
    <3>2. e[p] = "none"
      BY <1>4, <3>1 DEF Status
    <3> QED BY <1>1, <1>4, <1>5, <1>6, <3>1, <3>2 DEF SavedBy, Rotated
  <2>3. UsesOK'
    <3>1. \A s \in undone : s \in undone'
      BY <1>1, <1>6 DEF SavedBy, TypeOK, HistoryOK
    <3> QED BY <1>1, <1>2, <2>1, <2>2, <3>1, DreamUses
  <2>4. ASSUME NEW s \in Sessions, s \notin undone' PROVE FateAt(s)'
    <3>0. s \notin undone /\ FateAt(s)
      BY <1>1, <1>6, <2>4 DEF FateOK, SavedBy
    <3>1. CASE s = rot.s /\ rot.ok
      <4>1. Linked(s) /\ InHand(s) /\ s \notin rot.todo
        BY <1>1, <3>0, <3>1 DEF Linked, InHand, FateAt, RotationOK
      <4>2. \A q \in Procs : cache[q][s] # "archived"
        BY <3>0, <4>1 DEF FateAt, ArchivedOK, Archived, Rotated
      <4>3. disk'[s] = "archived" /\ cache'[Dream][s] = "archived"
        BY <1>3, <1>6, <3>1 DEF SavedBy
      <4>4. ~Rotated(s)' /\ s \notin rot'.todo
        BY <1>1, <1>5, <4>1 DEF Rotated
      <4>5. Real(<<"arch", s>>)' /\ (at'[<<"log", s>>].kind = "link" \/ LogWriter(s)')
        <5>1. /\ Real(<<"arch", s>>)
              /\ \/ at[<<"log", s>>].kind = "link"
                 \/ at[<<"log", s>>].kind = "file" /\ writers[s] # {}
          BY <3>0, <4>1 DEF FateAt, RotationOK
        <5>2. ASSUME NEW q \in writers[s] PROVE cache'[q][s] # "archived"
          BY <1>1, <2>1, <4>2, <5>2, WritersType, ProcParts
        <5>3. at[<<"log", s>>].kind = "file" /\ writers[s] # {} => LogWriter(s)'
          BY <1>1, <1>2, <5>2 DEF LogWriter
        <5> QED BY <1>1, <5>1, <5>3 DEF Real
      <4>6. ArchivedOK(s)' /\ DreamKnows(s)'
        BY <4>3, <4>4, <4>5 DEF ArchivedOK, DreamKnows
      <4>7. LinksOK(s)'
        BY <1>1, <3>0, <4>3 DEF LinksOK, FateAt
      <4>8. RotationOK(s)'
        BY <1>5, <4>4 DEF RotationOK
      <4>9. BetweenOK(s)' /\ NameOK(s)'
        BY <1>1, <1>2, <1>5, <3>0 DEF BetweenOK, Between, NameOK, FateAt
      <4> QED BY <4>6, <4>7, <4>8, <4>9 DEF FateAt
    <3>2. CASE ~(s = rot.s /\ rot.ok)
      <4>1. e[s] = "archived" => cache[Dream][s] = "archived"
        BY <1>6, <3>2
      <4>2. /\ disk'[s] = "archived" <=> disk[s] = "archived"
            /\ \A r \in Procs : cache'[r][s] = "archived" => cache[r][s] = "archived" /\ Archived(s)
            /\ DreamKnows(s)'
        BY <1>3, <1>6, <2>4, <4>1, SavedFate
      <4>3. ~Linked(s)
        BY <3>2 DEF Linked
      <4>4. s \in rot'.todo => cache'[Dream][s] = cache[Dream][s]
        <5>1. s \in rot.todo => s # rot.s
          BY <1>1, <3>0 DEF FateAt, RotationOK, InHand
        <5> QED BY <1>1, <1>3, <1>6, <5>1 DEF SavedBy
      <4>5. writers[s] \subseteq Procs
        BY <1>1, WritersType
      <4> QED BY <1>1, <1>2, <1>5, <3>0, <4>2, <4>3, <4>4, <4>5, OtherFate
    <3> QED BY <3>1, <3>2
  <2>5. FateOK'
    BY <2>4 DEF FateOK
  <2> QED BY <1>1, <2>3, <2>5 DEF Inv
<1>7. ASSUME ~rot.ok, UNCHANGED <<disk, cache, undone>> PROVE Inv'
  <2>1. UsesOK'
    <3>1. \A p \in Agents : pc[p] = "new" => ~Rotated(p)'
      BY <1>1, <1>4, <1>5 DEF Rotated
    <3> QED BY <1>1, <1>2, <1>4, <1>7, <3>1, DreamUses
  <2>2. ASSUME NEW s \in Sessions, s \notin undone PROVE FateAt(s)'
    <3>1. FateAt(s) /\ ~Linked(s) /\ writers[s] \subseteq Procs
      BY <1>1, <1>7, <2>2, WritersType DEF FateOK, Linked
    <3>2. DreamKnows(s)' /\ \A q \in Procs : cache'[q][s] = "archived" => Archived(s)
      BY <1>7, <3>1 DEF FateAt, DreamKnows, Archived
    <3> QED BY <1>1, <1>2, <1>5, <1>7, <3>1, <3>2, OtherFate
  <2>3. FateOK'
    BY <1>7, <2>2 DEF FateOK
  <2> QED BY <1>1, <2>1, <2>3 DEF Inv
<1>8. CASE rot.ok /\ SavedBy(Dream, [cache[Dream] EXCEPT ![rot.s] = "archived"])
  <2> DEFINE e == [cache[Dream] EXCEPT ![rot.s] = "archived"]
  <2>1. e[rot.s] = "archived" /\ \A s \in Sessions \ {rot.s} : e[s] = cache[Dream][s]
    BY <1>1, <1>3 DEF Registries
  <2>2. SavedBy(Dream, e) /\ (rot.ok <=> "archived" = "archived")
    BY <1>8
  <2> HIDE DEF e
  <2> QED BY <1>6, <2>1, <2>2
<1>9. CASE ~rot.ok /\ SavedBy(Dream, [cache[Dream] EXCEPT ![rot.s] = "kept"])
  <2> DEFINE e == [cache[Dream] EXCEPT ![rot.s] = "kept"]
  <2>1. e[rot.s] = "kept" /\ \A s \in Sessions \ {rot.s} : e[s] = cache[Dream][s]
    BY <1>1, <1>3 DEF Registries
  <2>2. SavedBy(Dream, e) /\ (rot.ok <=> "kept" = "archived")
    BY <1>9
  <2> HIDE DEF e
  <2> QED BY <1>6, <2>1, <2>2
<1> QED BY <1>7, <1>8, <1>9, RecordType DEF Inv

LEMMA CleanUpKeeps ==
  ASSUME Inv, CleanUp
  PROVE  Inv'
<1>1. /\ TypeOK /\ TypeOK' /\ FateOK /\ UsesOK
      /\ rot.step = "pick" /\ rot' = Idle /\ at' = at
  BY CleanUpType DEF Inv, fileVars
<1>2. /\ SameUses /\ saved' = saved /\ writers' = writers /\ pc' = pc
  BY KeepsUses DEF CleanUp, agentVars, listVars, saveVars
<1>3. cache[Dream] \in Registries /\ Dream \in Procs
  BY <1>1, ProcParts DEF TypeOK, RegistryOK
<1>4. \A p \in Agents : pc[p] = "new" => /\ p \in Sessions /\ disk[p] = "none" /\ p \notin undone
                                         /\ cache[Dream][p] \in {"none", "unread"}
  BY <1>3, <1>1, ProcParts DEF UsesOK, NewOK
<1>5. \A s : ~InHand(s)' /\ ~Moved(s)' /\ ~Linked(s)' /\ ~Moved(s) /\ ~Linked(s)
             /\ s \notin rot'.todo /\ ~Rotated(s)'
  BY <1>1 DEF InHand, Moved, Linked, Idle, Rotated
<1>6. ASSUME NEW e, SavedBy(Dream, e), \A s \in Sessions : e[s] \in {cache[Dream][s], "none"}
      PROVE  Inv'
  <2>1. \A q \in Agents : cache'[q] = cache[q]
    BY <1>6, ProcParts DEF SavedBy
  <2>2. \A p \in Agents : pc[p] = "new" => /\ disk'[p] = "none" /\ ~Rotated(p)' /\ p \notin undone'
                                           /\ cache'[Dream][p] \in {"none", "unread"}
    <3> SUFFICES ASSUME NEW p \in Agents, pc[p] = "new"
                 PROVE  /\ disk'[p] = "none" /\ ~Rotated(p)' /\ p \notin undone'
                        /\ cache'[Dream][p] \in {"none", "unread"}
      OBVIOUS
    <3>1. e[p] \in {"none", "unread"} /\ e[p] \in Status /\ disk'[p] = e[p] /\ cache'[Dream][p] = e[p]
      BY <1>3, <1>4, <1>6 DEF SavedBy, Registries
    <3>2. e[p] = "none"
      BY <3>1 DEF Status
    <3> QED BY <1>4, <1>5, <1>6, <3>1, <3>2 DEF SavedBy
  <2>3. UsesOK'
    <3>1. \A s \in undone : s \in undone'
      BY <1>1, <1>6 DEF SavedBy, TypeOK, HistoryOK
    <3> QED BY <1>1, <1>2, <2>1, <2>2, <3>1, DreamUses
  <2>4. ASSUME NEW s \in Sessions, s \notin undone' PROVE FateAt(s)'
    <3>1. e[s] = "archived" => cache[Dream][s] = "archived"
      BY <1>6
    <3>2. /\ s \notin undone /\ FateAt(s)
          /\ disk'[s] = "archived" <=> disk[s] = "archived"
          /\ \A r \in Procs : cache'[r][s] = "archived" => cache[r][s] = "archived" /\ Archived(s)
          /\ DreamKnows(s)'
      BY <1>3, <1>6, <2>4, <3>1, SavedFate
    <3>3. writers[s] \subseteq Procs
      BY <1>1, WritersType
    <3> QED BY <1>1, <1>2, <1>5, <3>2, <3>3, OtherFate
  <2>5. FateOK'
    BY <2>4 DEF FateOK
  <2> QED BY <1>1, <2>3, <2>5 DEF Inv
<1>7. ASSUME UNCHANGED <<disk, cache, undone>> PROVE Inv'
  <2>1. UsesOK'
    BY <1>1, <1>2, <1>4, <1>5, <1>7, DreamUses
  <2>2. ASSUME NEW s \in Sessions, s \notin undone PROVE FateAt(s)'
    <3>1. FateAt(s) /\ writers[s] \subseteq Procs
      BY <1>1, <2>2, WritersType DEF FateOK
    <3>2. DreamKnows(s)' /\ \A q \in Procs : cache'[q][s] = "archived" => Archived(s)
      BY <1>7, <3>1 DEF FateAt, DreamKnows, Archived
    <3> QED BY <1>1, <1>2, <1>5, <1>7, <3>1, <3>2, OtherFate
  <2>3. FateOK'
    BY <1>7, <2>2 DEF FateOK
  <2> QED BY <1>1, <2>1, <2>3 DEF Inv
<1> QED BY <1>6, <1>7, CleanUpType DEF Inv

LEMMA DreamEndsKeeps ==
  ASSUME Inv, DreamEnds
  PROVE  Inv'
<1>1. /\ TypeOK /\ TypeOK' /\ FateOK /\ UsesOK /\ rot' = Idle /\ at' = at
      /\ \A q \in Procs : cache'[q] = IF q = Dream THEN Unread ELSE cache[q]
  BY DreamEndsType DEF Inv, fileVars
<1>2. /\ SameUses /\ saved' = saved /\ writers' = writers /\ pc' = pc
      /\ disk' = disk
      /\ undone' = IF rot.step = "moved" \/ (rot.step = "record" /\ rot.ok)
                   THEN undone \cup {rot.s} ELSE undone
  BY KeepsUses DEF DreamEnds, agentVars, listVars, saveVars
<1>3. \A s : ~InHand(s)' /\ ~Moved(s)' /\ ~Linked(s)' /\ s \notin rot'.todo /\ ~Rotated(s)'
  BY <1>1 DEF InHand, Moved, Linked, Idle, Rotated
<1>4. \A s : s \notin undone' => s \notin undone /\ ~Moved(s) /\ ~Linked(s)
  BY <1>2 DEF Moved, Linked
<1>5. UsesOK'
  <2>1. \A p \in Agents : pc[p] = "new" => /\ disk'[p] = "none" /\ ~Rotated(p)' /\ p \notin undone'
                                           /\ cache'[Dream][p] \in {"none", "unread"}
    <3> SUFFICES ASSUME NEW p \in Agents, pc[p] = "new"
                 PROVE  /\ disk'[p] = "none" /\ p \notin undone' /\ cache'[Dream][p] \in {"none", "unread"}
      BY <1>3
    <3>1. NewOK(p) /\ p \in Sessions
      BY <1>1, ProcParts DEF UsesOK
    <3>2. cache'[Dream][p] = "unread"
      BY <1>1, <3>1, ProcParts, UnreadType
    <3> QED BY <1>2, <3>1, <3>2 DEF NewOK, Rotated, InHand
  <2>2. \A q \in Agents : cache'[q] = cache[q]
    BY <1>1, ProcParts
  <2>3. \A s \in undone : s \in undone'
    BY <1>2
  <2> QED BY <1>1, <1>2, <2>1, <2>2, <2>3, DreamUses
<1>6. ASSUME NEW s \in Sessions, s \notin undone' PROVE FateAt(s)'
  <2>1. FateAt(s) /\ writers[s] \subseteq Procs /\ Dream \notin writers[s]
    BY <1>1, <1>4, <1>6, WritersType DEF FateOK
  <2>2. cache'[Dream] = Unread /\ cache'[Dream][s] = "unread"
    BY <1>1, ProcParts, UnreadType
  <2>3. DreamKnows(s)'
    BY <2>2 DEF DreamKnows
  <2>4. \A q \in Procs : cache'[q][s] = "archived" => cache[q][s] = "archived" /\ Archived(s)
    BY <1>1, <2>2 DEF Archived
  <2> QED BY <1>1, <1>2, <1>3, <1>4, <1>6, <2>1, <2>3, <2>4, OtherFate
<1>7. FateOK'
  BY <1>6 DEF FateOK
<1> QED BY <1>1, <1>5, <1>7 DEF Inv

LEMMA SelectKeeps ==
  ASSUME Inv, Select
  PROVE  Inv'
<1>1. /\ TypeOK /\ TypeOK' /\ FateOK /\ UsesOK /\ rot = Idle /\ at' = at
      /\ \A q \in Agents : cache'[q] = cache[q]
      /\ cache[Dream] # Unread => disk' = disk /\ cache'[Dream] = cache[Dream]
      /\ cache[Dream] = Unread => disk' = cache'[Dream]
      /\ rot'.step \in {"idle", "pick"}
      /\ \A s \in rot'.todo : s \in Sessions /\ cache'[Dream][s] = "active" /\ Exists(<<"log", s>>)
  BY SelectType DEF Inv, fileVars
<1>2. \/ disk' = disk
      \/ /\ \A s \in Sessions : disk[s] = "none"
         /\ \A s \in Sessions : disk'[s] = IF at[<<"log", s>>].kind # "none"
                                           THEN "active" ELSE "none"
  BY SelectType DEF Inv
<1>3. /\ SameUses /\ saved' = saved /\ writers' = writers /\ pc' = pc /\ undone' = undone
  BY KeepsUses DEF Select, agentVars, listVars, saveVars
<1>4. \A s : /\ ~InHand(s) /\ ~Moved(s) /\ ~Linked(s)
             /\ ~InHand(s)' /\ ~Moved(s)' /\ ~Linked(s)'
             /\ Rotated(s)' => s \in rot'.todo
  BY <1>1 DEF InHand, Moved, Linked, Idle, Rotated
<1>5. \A s \in Sessions : disk'[s] = "archived" <=> disk[s] = "archived"
  BY <1>2
<1>6. UsesOK'
  <2>1. \A p \in Agents : pc[p] = "new" => /\ disk'[p] = "none" /\ ~Rotated(p)' /\ p \notin undone'
                                           /\ cache'[Dream][p] \in {"none", "unread"}
    <3> SUFFICES ASSUME NEW p \in Agents, pc[p] = "new"
                 PROVE  /\ disk'[p] = "none" /\ ~Rotated(p)' /\ p \notin undone'
                        /\ cache'[Dream][p] \in {"none", "unread"}
      OBVIOUS
    <3>1. NewOK(p) /\ p \in Sessions
      BY <1>1, ProcParts DEF UsesOK
    <3>2. disk'[p] = "none"
      BY <1>2, <3>1 DEF NewOK
    <3>3. cache'[Dream][p] \in {"none", "unread"}
      BY <1>1, <3>1, <3>2, ProcParts DEF NewOK
    <3>4. ~Exists(<<"log", p>>)
      BY <3>1 DEF NewOK, Exists, Resolve
    <3>5. ~Rotated(p)'
      BY <1>1, <1>4, <3>4
    <3> QED BY <1>3, <3>1, <3>2, <3>3, <3>5 DEF NewOK
  <2>2. \A s \in undone : s \in undone'
    BY <1>3
  <2> QED BY <1>1, <1>3, <2>1, <2>2, DreamUses
<1>7. ASSUME NEW s \in Sessions, s \notin undone PROVE FateAt(s)'
  <2>1. FateAt(s) /\ writers[s] \subseteq Agents
    BY <1>1, <1>7, WritersType DEF FateOK
  <2>2. DreamKnows(s)'
    BY <1>1, <2>1 DEF DreamKnows, FateAt
  <2>3. /\ Archived(s)' => Archived(s) /\ disk'[s] = "archived"
        /\ LogWriter(s)' <=> LogWriter(s)
    <3>1. ASSUME Archived(s)' PROVE Archived(s)
      BY <1>1, <1>5, <3>1, ProcParts DEF Archived
    <3>2. LogWriter(s)' <=> LogWriter(s)
      <4>1. \A q \in writers[s] : cache'[q] = cache[q]
        BY <1>1, <2>1
      <4> QED BY <1>1, <1>3, <4>1 DEF LogWriter
    <3> QED BY <1>5, <2>1, <3>1, <3>2 DEF FateAt, ArchivedOK
  <2>4. s \in rot'.todo => cache'[Dream][s] = "active" /\ disk'[s] # "archived" /\ ~Archived(s)'
    <3> SUFFICES ASSUME s \in rot'.todo
                 PROVE  cache'[Dream][s] = "active" /\ disk'[s] # "archived" /\ ~Archived(s)'
      OBVIOUS
    <3>1. cache'[Dream][s] = "active" /\ cache'[Dream] # Unread
      BY <1>1, UnreadType
    <3>2. disk'[s] # "archived"
      BY <2>2, <3>1 DEF DreamKnows
    <3> QED BY <2>3, <3>1, <3>2
  <2>5. s \in rot'.todo => Real(<<"log", s>>)'
    <3> SUFFICES ASSUME s \in rot'.todo PROVE Real(<<"log", s>>)
      BY <1>1 DEF Real
    <3>1. at[<<"log", s>>].kind # "link"
      BY <1>4, <1>5, <2>1, <2>4 DEF FateAt, LinksOK
    <3> QED BY <1>1, <3>1 DEF Exists, Resolve, Real
  <2>6. ArchivedOK(s)'
    BY <1>1, <1>4, <2>1, <2>3, <2>4 DEF ArchivedOK, FateAt, Real
  <2>7. LinksOK(s)'
    BY <1>1, <1>4, <1>5, <2>1 DEF LinksOK, FateAt
  <2>8. RotationOK(s)'
    BY <1>4, <2>4, <2>5 DEF RotationOK
  <2>9. BetweenOK(s)' /\ NameOK(s)'
    BY <1>1, <1>3, <1>4, <2>1 DEF BetweenOK, Between, NameOK, FateAt
  <2> QED BY <2>2, <2>6, <2>7, <2>8, <2>9 DEF FateAt
<1>8. FateOK'
  BY <1>3, <1>7 DEF FateOK
<1> QED BY <1>1, <1>6, <1>8 DEF Inv

\* What the rotation does to the files of a session that nobody has as
\* archived leaves what agents use.
LEMMA MovedUses ==
  ASSUME Inv, NEW s0 \in Sessions, SameUses, pc' = pc, writers' = writers,
         cache' = cache, disk' = disk, undone' = undone, InHand(s0) \/ s0 \in rot.todo,
         \A s \in Sessions \ {s0} : /\ at'[<<"log", s>>] = at[<<"log", s>>]
                                    /\ at'[<<"arch", s>>] = at[<<"arch", s>>]
                                    /\ Rotated(s)' => Rotated(s)
  PROVE  UsesOK'
<1>1. TypeOK /\ FateOK /\ UsesOK
  BY DEF Inv
<1>2. ctx' = ctx /\ \A q \in Agents : \A f : Uses(q, f)' <=> Uses(q, f)
  BY DEF SameUses
<1>3. Rotated(s0)
  BY DEF Rotated
<1>4. ASSUME NEW q \in Agents
      PROVE  /\ NewOK(q)' /\ OwnOK(q)'
             /\ \A s \in Sessions : KnowsArchive(q, s)' /\ (s \notin undone' => PathsOK(q, s)')
  <2>1. NewOK(q) /\ OwnOK(q) /\ q \in Procs /\ q \in Sessions
    BY <1>1, ProcParts DEF UsesOK
  <2>2. NewOK(q)'
    <3> SUFFICES ASSUME pc[q] = "new" PROVE NewOK(q)'
      BY DEF NewOK
    <3>1. q # s0
      BY <1>3, <2>1 DEF NewOK
    <3>2. /\ at'[<<"log", q>>] = at[<<"log", q>>] /\ at'[<<"arch", q>>] = at[<<"arch", q>>]
          /\ ~Rotated(q)'
      BY <2>1, <3>1 DEF NewOK
    <3> QED BY <1>2, <2>1, <3>2 DEF NewOK
  <2>3. OwnOK(q)'
    BY <2>1 DEF OwnOK
  <2>4. ASSUME NEW s \in Sessions PROVE KnowsArchive(q, s)' /\ (s \notin undone' => PathsOK(q, s)')
    <3>1. KnowsArchive(q, s) /\ (s \notin undone => PathsOK(q, s))
      BY <1>1 DEF UsesOK
    <3>2. /\ Uses(q, <<"log", s>>)' <=> Uses(q, <<"log", s>>)
          /\ Uses(q, <<"arch", s>>)' <=> Uses(q, <<"arch", s>>)
      BY <1>2
    <3>3. CASE s = s0
      <4>1. s \notin undone => cache[q][s] # "archived"
        BY <1>1, <1>3, <2>1, <3>3 DEF FateOK, FateAt, ArchivedOK, Archived
      <4> QED BY <3>1, <3>2, <4>1 DEF KnowsArchive, PathsOK
    <3>4. CASE s # s0
      <4>1. /\ at'[<<"log", s>>] = at[<<"log", s>>] /\ at'[<<"arch", s>>] = at[<<"arch", s>>]
        BY <3>4
      <4>2. LogWriter(s)' <=> LogWriter(s)
        BY <4>1 DEF LogWriter
      <4> QED BY <3>1, <3>2, <4>1, <4>2 DEF KnowsArchive, PathsOK
    <3> QED BY <3>3, <3>4
  <2> QED BY <2>2, <2>3, <2>4
<1> QED BY <1>4 DEF UsesOK

LEMMA MoveKeeps ==
  ASSUME Inv, NEW s0 \in Sessions, Move(s0)
  PROVE  Inv'
<1>1. /\ TypeOK /\ TypeOK' /\ FateOK /\ UsesOK
      /\ \A h \in Files : at'[h] = IF h = <<"arch", s0>> THEN at[<<"log", s0>>]
                                   ELSE IF h = <<"log", s0>> THEN Absent ELSE at[h]
      /\ rot'.step = "moved" /\ rot'.s = s0 /\ rot'.todo = rot.todo \ {s0} /\ ~rot'.ok
      /\ rot.step = "pick" /\ s0 \in rot.todo
  BY MoveType DEF Inv
<1>2. /\ SameUses /\ saved' = saved /\ writers' = writers /\ pc' = pc /\ undone' = undone
      /\ cache' = cache /\ disk' = disk
  BY MoveType, KeepsUses DEF Move, agentVars, saveVars, Inv
<1>3. ASSUME NEW s \in Sessions, s # s0
      PROVE  /\ at'[<<"log", s>>] = at[<<"log", s>>] /\ at'[<<"arch", s>>] = at[<<"arch", s>>]
             /\ ~InHand(s)' /\ ~Moved(s)' /\ ~Linked(s)' /\ ~Moved(s) /\ ~Linked(s)
             /\ s \in rot'.todo <=> s \in rot.todo
             /\ Rotated(s)' => Rotated(s)
  <2>1. at'[<<"log", s>>] = at[<<"log", s>>] /\ at'[<<"arch", s>>] = at[<<"arch", s>>]
    BY <1>1, <1>3, FileParts
  <2>2. ~InHand(s)' /\ ~Moved(s)' /\ ~Linked(s)' /\ ~Moved(s) /\ ~Linked(s)
    BY <1>1, <1>3 DEF InHand, Moved, Linked
  <2>3. s \in rot'.todo <=> s \in rot.todo
    BY <1>1, <1>3
  <2> QED BY <2>1, <2>2, <2>3 DEF Rotated
<1>4. UsesOK'
  <2>1. \A s \in Sessions \ {s0} : /\ at'[<<"log", s>>] = at[<<"log", s>>]
                                   /\ at'[<<"arch", s>>] = at[<<"arch", s>>]
                                   /\ Rotated(s)' => Rotated(s)
    BY <1>3
  <2> QED BY <1>1, <1>2, <2>1, MovedUses
<1>5. ASSUME NEW s \in Sessions, s \notin undone PROVE FateAt(s)'
  <2>1. FateAt(s) /\ writers[s] \subseteq Procs
    BY <1>1, <1>5, WritersType DEF FateOK
  <2>2. DreamKnows(s)'
    BY <1>2, <2>1 DEF DreamKnows, FateAt
  <2>3. CASE s # s0
    <3>1. \A q \in Procs : cache'[q][s] = "archived" => Archived(s)
      BY <1>2 DEF Archived
    <3> QED BY <1>2, <1>3, <2>1, <2>2, <2>3, <3>1, OtherFate
  <2>4. CASE s = s0
    <3>1. /\ cache[Dream][s] = "active" /\ Real(<<"log", s>>) /\ Rotated(s) /\ ~Moved(s)
      BY <1>1, <2>1, <2>4 DEF FateAt, RotationOK, Rotated, Moved
    <3>2. ~Archived(s)'
      BY <1>2, <2>1, <3>1 DEF FateAt, ArchivedOK, Archived
    <3>3. at'[<<"log", s>>] = Absent /\ at'[<<"arch", s>>] = at[<<"log", s>>]
      BY <1>1, <2>4, FileParts
    <3>4. InHand(s)' /\ Moved(s)' /\ ~Linked(s)' /\ s \notin rot'.todo
      BY <1>1, <2>4 DEF InHand, Moved, Linked
    <3>5. ArchivedOK(s)' /\ LinksOK(s)'
      BY <3>1, <3>2, <3>3, FileKinds DEF ArchivedOK, LinksOK, Real
    <3>6. RotationOK(s)' /\ BetweenOK(s)'
      BY <1>2, <3>1, <3>3, <3>4, FileKinds DEF RotationOK, BetweenOK, Real
    <3>7. NameOK(s)'
      BY <1>2, <2>1, <3>1, <3>3, <3>4, FileKinds DEF NameOK, FateAt, Real
    <3> QED BY <2>2, <3>5, <3>6, <3>7 DEF FateAt
  <2> QED BY <2>3, <2>4
<1>6. FateOK'
  BY <1>2, <1>5 DEF FateOK
<1> QED BY <1>1, <1>4, <1>6 DEF Inv

LEMMA MakeLinkKeeps ==
  ASSUME Inv, MakeLink
  PROVE  Inv'
<1> DEFINE s0 == rot.s
           log == <<"log", s0>>
           arch == <<"arch", s0>>
<1>1. /\ TypeOK /\ TypeOK' /\ FateOK /\ UsesOK /\ s0 \in Sessions /\ rot.step = "moved"
      /\ rot'.step = "record" /\ rot'.s = s0 /\ rot'.todo = rot.todo
  BY MakeLinkType DEF Inv
<1>2. \/ /\ at[log].kind = "none" /\ rot'.ok /\ order' = order
         /\ \A h \in Files : at'[h] = IF h = log THEN Link ELSE at[h]
      \/ /\ at[log].kind # "none" /\ ~rot'.ok /\ at' = at
      \/ /\ at[log].kind = "none" /\ ~rot'.ok
         /\ \A h \in Files : at'[h] = IF h = log THEN at[arch]
                                      ELSE IF h = arch THEN Absent ELSE at[h]
      \/ /\ at[log].kind = "none" /\ ~rot'.ok
         /\ ~Exists(arch) /\ at' = at
  BY MakeLinkType DEF Inv, fileVars
<1>3. /\ SameUses /\ saved' = saved /\ writers' = writers /\ pc' = pc /\ undone' = undone
      /\ cache' = cache /\ disk' = disk
  BY MakeLinkType, KeepsUses DEF MakeLink, agentVars, saveVars, Inv
<1>4. ASSUME NEW s \in Sessions, s # s0
      PROVE  /\ at'[<<"log", s>>] = at[<<"log", s>>] /\ at'[<<"arch", s>>] = at[<<"arch", s>>]
             /\ ~InHand(s)' /\ ~Moved(s)' /\ ~Linked(s)' /\ ~Moved(s) /\ ~Linked(s)
             /\ s \in rot'.todo <=> s \in rot.todo
             /\ Rotated(s)' => Rotated(s)
  <2>1. at'[<<"log", s>>] = at[<<"log", s>>] /\ at'[<<"arch", s>>] = at[<<"arch", s>>]
    BY <1>1, <1>2, <1>4, FileParts
  <2>2. ~InHand(s)' /\ ~Moved(s)' /\ ~Linked(s)' /\ ~Moved(s) /\ ~Linked(s)
    BY <1>1, <1>4 DEF InHand, Moved, Linked
  <2> QED BY <1>1, <2>1, <2>2 DEF Rotated
<1>5. InHand(s0) /\ Moved(s0) /\ InHand(s0)' /\ ~Moved(s0)' /\ ~Linked(s0)
      /\ (Linked(s0)' <=> rot'.ok)
  BY <1>1 DEF InHand, Moved, Linked
<1>6. UsesOK'
  <2>1. \A s \in Sessions \ {s0} : /\ at'[<<"log", s>>] = at[<<"log", s>>]
                                   /\ at'[<<"arch", s>>] = at[<<"arch", s>>]
                                   /\ Rotated(s)' => Rotated(s)
    BY <1>4
  <2> HIDE DEF s0
  <2> QED BY <1>1, <1>3, <1>5, <2>1, MovedUses
<1>7. ASSUME NEW s \in Sessions, s \notin undone PROVE FateAt(s)'
  <2>1. FateAt(s) /\ writers[s] \subseteq Procs
    BY <1>1, <1>7, WritersType DEF FateOK
  <2>2. DreamKnows(s)'
    BY <1>3, <2>1 DEF DreamKnows, FateAt
  <2>3. CASE s # s0
    <3>1. \A q \in Procs : cache'[q][s] = "archived" => Archived(s)
      BY <1>3 DEF Archived
    <3> QED BY <1>3, <1>4, <2>1, <2>2, <2>3, <3>1, OtherFate
  <2>4. CASE s = s0
    <3>1. /\ cache[Dream][s] = "active" /\ Real(arch) /\ at[log].kind \in {"none", "file"}
          /\ Rotated(s) /\ s \notin rot.todo
      BY <1>5, <2>1, <2>4 DEF FateAt, RotationOK, Rotated
    <3>2. ~Archived(s)'
      BY <1>3, <2>1, <3>1 DEF FateAt, ArchivedOK, Archived
    <3>3. ArchivedOK(s)'
      BY <3>2 DEF ArchivedOK
    <3>4. \/ rot'.ok /\ at[log].kind = "none" /\ at'[log] = Link /\ at'[arch] = at[arch]
          \/ ~rot'.ok /\ at[log].kind = "file" /\ at'[log] = at[log] /\ at'[arch] = at[arch]
          \/ ~rot'.ok /\ at[log].kind = "none" /\ at'[log] = at[arch] /\ at'[arch] = Absent
      <4>1. Exists(arch)
        BY <3>1 DEF Exists, Resolve, Real
      <4>2. log \in Files /\ arch \in Files /\ log # arch
        BY <1>1, FileParts
      <4> QED BY <1>2, <3>1, <4>1, <4>2
    <3>5. LinksOK(s)'
      <4>1. at[<<"arch", s>>].kind # "link" /\ at'[<<"arch", s>>].kind # "link"
        BY <2>1, <2>4, <3>4, FileKinds DEF LinksOK, FateAt
      <4>2. at'[<<"log", s>>].kind = "link" => rot'.ok
        BY <2>4, <3>4, <4>1
      <4>3. rot'.ok => Linked(s)'
        BY <1>1, <2>4 DEF Linked
      <4> QED BY <4>1, <4>2, <4>3 DEF LinksOK
    <3>6. RotationOK(s)'
      BY <1>1, <1>3, <1>5, <2>4, <3>1, <3>4, FileKinds DEF RotationOK, Real
    <3>7. BetweenOK(s)'
      BY <2>4, <3>1, <3>4, FileKinds DEF BetweenOK, Between, Real
    <3>8. NameOK(s)'
      BY <1>3, <1>5, <2>1, <2>4, <3>1, <3>4, FileKinds DEF NameOK, FateAt, Real
    <3> QED BY <2>2, <3>3, <3>5, <3>6, <3>7, <3>8 DEF FateAt
  <2> QED BY <2>3, <2>4
<1>8. FateOK'
  BY <1>3, <1>7 DEF FateOK
<1> QED BY <1>1, <1>6, <1>8 DEF Inv

LEMMA AtMostOne ==
  ASSUME NEW S, IsFiniteSet(S), Cardinality(S) <= 1, NEW a \in S, NEW b \in S
  PROVE  a = b
<1> SUFFICES ASSUME a # b PROVE FALSE
  OBVIOUS
<1> DEFINE T == {a} \cup {b}
<1>1. IsFiniteSet({a}) /\ Cardinality({a}) = 1
  BY FS_Singleton
<1>2. b \notin {a}
  OBVIOUS
<1>3. IsFiniteSet(T) /\ Cardinality(T) = 2
  BY <1>1, <1>2, FS_AddElement
<1>4. T \subseteq S
  OBVIOUS
<1>5. Cardinality(T) <= Cardinality(S) /\ Cardinality(S) \in Nat
  BY <1>4, FS_Subset, FS_CardinalityType
<1> HIDE DEF T
<1> QED BY <1>3, <1>5

\* An agent saves to its file, and may end with it.
LEMMA SaveKeeps ==
  ASSUME Inv, TypeOK', NEW p \in Agents, NEW turns \in SUBSET Turns, Save(p, turns), pc[p] = "running",
         rot' = rot, disk' = disk, undone' = undone,
         \A q \in Agents : pc'[q] = "new" => pc[q] = "new" /\ ctx'[q] = ctx[q],
         \A q \in Agents : pc'[q] \in Running => cache'[q] = cache[q] /\ pc[q] \in Running,
         \A q \in Procs : cache'[q] = cache[q] \/ (q = p /\ cache'[q] = Unread),
         \A q \in Agents : \A f : Uses(q, f)' => \/ Uses(q, f) /\ cache'[q] = cache[q]
                                                 \/ q = p /\ f = <<"log", p>>
  PROVE  Inv'
<1> DEFINE s0 == ctx[p][2]
           log == <<"log", s0>>
           arch == <<"arch", s0>>
<1>1. /\ TypeOK /\ FateOK /\ UsesOK /\ p \in Procs /\ p \in Sessions
  BY ProcParts DEF Inv
<1>2. /\ s0 \in Sessions /\ ctx[p] \in Files /\ log \in Files /\ arch \in Files
      /\ ctx[p] = log \/ ctx[p] = arch
  BY <1>1, FileParts DEF TypeOK, AgentsOK
<1>3. /\ \A g \in Files : at'[g] = IF g = ctx[p] THEN Context(turns) ELSE at[g]
      /\ \A s \in Sessions : /\ saved'[s] = IF s = s0 THEN turns ELSE saved[s]
                             /\ writers'[s] = IF s = s0 THEN writers[s] \cup {p} ELSE writers[s]
  BY <1>1, SaveType
<1>4. /\ \A q \in Procs, s \in Sessions : cache'[q][s] = "archived" => cache[q][s] = "archived"
      /\ cache'[Dream] = cache[Dream]
  BY <1>1, UnreadType, ProcParts
<1>5. ASSUME NEW s \in Sessions, s # s0
      PROVE  at'[<<"log", s>>] = at[<<"log", s>>] /\ at'[<<"arch", s>>] = at[<<"arch", s>>]
  BY <1>2, <1>3, <1>5, FileParts
<1>6. /\ at'[<<"log", s0>>].kind = at[<<"log", s0>>].kind \/ at'[<<"log", s0>>].kind = "file"
      /\ at'[<<"arch", s0>>].kind = at[<<"arch", s0>>].kind \/ at'[<<"arch", s0>>].kind = "file"
  BY <1>2, <1>3, FileParts, FileKinds
<1> HIDE DEF s0
<1>7. ASSUME NEW s \in Sessions, LogWriter(s) PROVE LogWriter(s)'
  <2>1. PICK q \in writers[s] : cache[q][s] # "archived" /\ q \in Procs
    BY <1>1, <1>7, WritersType DEF LogWriter
  <2>2. q \in writers'[s]
    BY <1>3, <2>1
  <2>4. cache'[q][s] # "archived"
    BY <1>4, <2>1
  <2>3. at'[<<"log", s>>].kind = "file"
    BY <1>5, <1>6, <1>7 DEF LogWriter
  <2> QED BY <2>2, <2>3, <2>4 DEF LogWriter
<1>8. ASSUME NEW s \in Sessions \ undone PROVE FateAt(s)'
  <2>1. FateAt(s) /\ writers[s] \subseteq Procs /\ s \in Sessions
    BY <1>1, <1>8, WritersType DEF FateOK
  <2>2. DreamKnows(s)'
    BY <1>4, <2>1 DEF DreamKnows, FateAt
  <2>3. /\ InHand(s)' <=> InHand(s)
        /\ Moved(s)' <=> Moved(s)
        /\ Linked(s)' <=> Linked(s)
        /\ Rotated(s)' <=> Rotated(s)
    BY DEF InHand, Moved, Linked, Rotated
  <2>4. Archived(s)' => Archived(s)
    BY <1>4, <2>1 DEF Archived
  <2>5. CASE s # s0
    <3>1. /\ \A q \in Procs : cache'[q][s] = "archived" => Archived(s)
          /\ \A q \in writers[s] : cache'[q][s] = "archived" => cache[q][s] = "archived"
          /\ writers'[s] = writers[s] /\ saved'[s] = saved[s]
          /\ at'[<<"log", s>>] = at[<<"log", s>>] /\ at'[<<"arch", s>>] = at[<<"arch", s>>]
      BY <1>3, <1>4, <1>5, <2>1, <2>5 DEF Archived
    <3>2. /\ disk'[s] = "archived" <=> disk[s] = "archived"
          /\ s \in rot'.todo => s \in rot.todo
      OBVIOUS
    <3> QED BY <1>4, <2>1, <2>2, <2>3, <3>1, <3>2, OtherFate
  <2>6. CASE s = s0 /\ ctx[p] = log
    <3>1. at'[<<"log", s>>] = Context(turns) /\ at'[<<"arch", s>>] = at[<<"arch", s>>]
      BY <1>2, <1>3, <2>6, FileParts
    <3>2. /\ p \in writers'[s] /\ saved'[s] = turns /\ at'[<<"log", s>>].kind = "file"
          /\ Real(<<"log", s>>)' /\ (Real(<<"arch", s>>)' <=> Real(<<"arch", s>>))
      BY <1>3, <2>1, <2>6, <3>1, FileKinds DEF Real
    <3>3. LogWriter(s)'
      <4>1. CASE cache[p][s] = "archived"
        <5>1. PathsOK(p, s) /\ Uses(p, <<"log", s>>)
          BY <1>1, <1>8, <2>6 DEF UsesOK, Uses
        <5> QED BY <1>7, <2>1, <4>1, <5>1 DEF PathsOK
      <4>2. CASE cache[p][s] # "archived"
        BY <1>1, <1>4, <2>1, <3>2, <4>2 DEF LogWriter
      <4> QED BY <4>1, <4>2
    <3>4. ArchivedOK(s)' /\ LinksOK(s)'
      BY <2>1, <2>3, <2>4, <3>1, <3>2, <3>3 DEF ArchivedOK, LinksOK, FateAt
    <3>5. RotationOK(s)' /\ BetweenOK(s)'
      BY <1>4, <2>1, <2>3, <3>1, <3>2 DEF RotationOK, BetweenOK, Between, FateAt
    <3>6. NameOK(s)'
      BY <3>1, <3>2 DEF NameOK
    <3> QED BY <2>2, <3>4, <3>5, <3>6 DEF FateAt
  <2>7. CASE s = s0 /\ ctx[p] = arch
    <3>1. at'[<<"arch", s>>] = Context(turns) /\ at'[<<"log", s>>] = at[<<"log", s>>]
      BY <1>2, <1>3, <2>7, FileParts
    <3>2. /\ writers'[s] = writers[s] \cup {p} /\ saved'[s] = turns /\ at'[<<"arch", s>>].kind = "file"
          /\ Real(<<"arch", s>>)' /\ (Real(<<"log", s>>)' <=> Real(<<"log", s>>))
      BY <1>3, <2>1, <2>7, <3>1, FileKinds DEF Real
    <3>3. cache[p][s] = "archived"
      BY <1>1, <2>1, <2>7 DEF UsesOK, KnowsArchive, Uses
    <3>4. /\ disk[s] = "archived" /\ ~Rotated(s) /\ ~Moved(s) /\ ~Linked(s) /\ ~InHand(s) /\ s \notin rot.todo
          /\ at[<<"log", s>>].kind = "link" \/ LogWriter(s)
      BY <1>1, <2>1, <3>3 DEF FateAt, ArchivedOK, Archived, Rotated, Moved, Linked, InHand
    <3>5. ArchivedOK(s)' /\ LinksOK(s)'
      BY <1>7, <2>1, <2>3, <3>1, <3>2, <3>4 DEF ArchivedOK, LinksOK
    <3>6. RotationOK(s)'
      BY <2>3, <3>4 DEF RotationOK
    <3>7. at'[<<"log", s>>].kind \in {"link", "file"}
      BY <3>1, <3>4 DEF LogWriter
    <3>8. BetweenOK(s)'
      BY <3>7 DEF BetweenOK, Between
    <3>9. NameOK(s)'
      <4> SUFFICES ASSUME Cardinality(writers'[s]) <= 1 PROVE NameOK(s)'
        BY DEF NameOK
      <4>1. ~LogWriter(s)
        <5> SUFFICES ASSUME LogWriter(s) PROVE FALSE
          OBVIOUS
        <5>1. PICK q \in writers[s] : cache[q][s] # "archived"
          BY DEF LogWriter
        <5>2. q \in writers'[s] /\ p \in writers'[s] /\ q # p
          BY <3>2, <3>3, <5>1
        <5>3. writers[s] \subseteq Agents /\ IsFiniteSet(Agents)
          BY <1>1, <2>1, WritersType, SessionsAssumption
        <5>4. IsFiniteSet(writers'[s])
          BY <3>2, <5>3, FS_Subset, FS_AddElement
        <5> QED BY <5>2, <5>4, AtMostOne
      <4> QED BY <3>1, <3>2, <3>4, <4>1 DEF NameOK
    <3> QED BY <2>2, <3>5, <3>6, <3>8, <3>9 DEF FateAt
  <2> QED BY <1>2, <2>5, <2>6, <2>7
<1>9. ASSUME NEW q \in Agents
      PROVE  /\ NewOK(q)' /\ OwnOK(q)'
             /\ \A s \in Sessions : KnowsArchive(q, s)' /\ (s \notin undone' => PathsOK(q, s)')
  <2>1. NewOK(q) /\ OwnOK(q) /\ q \in Procs /\ q \in Sessions
    BY <1>1, ProcParts DEF UsesOK
  <2>2. NewOK(q)'
    <3> SUFFICES ASSUME pc'[q] = "new" PROVE NewOK(q)'
      BY DEF NewOK
    <3>1. pc[q] = "new" /\ ctx'[q] = ctx[q] /\ q # p
      OBVIOUS
    <3>2. q # s0
      BY <1>2, <2>1, <3>1 DEF NewOK, Uses
    <3>3. at'[<<"log", q>>] = at[<<"log", q>>] /\ at'[<<"arch", q>>] = at[<<"arch", q>>]
      BY <1>5, <2>1, <3>2
    <3>4. \A r \in Procs : cache'[r][q] \in {"none", "unread"}
      BY <2>1, <3>1, UnreadType DEF NewOK
    <3>5. writers'[q] = {} /\ \A s \in Sessions : q \notin writers'[s]
      BY <1>3, <2>1, <3>1, <3>2 DEF NewOK
    <3>6. ~Rotated(q)'
      BY <2>1, <3>1 DEF NewOK, Rotated, InHand
    <3>7. \A r \in Agents : Uses(r, <<"log", q>>)' \/ Uses(r, <<"arch", q>>)' => r = q
      BY <2>1, <3>1 DEF NewOK
    <3> QED BY <2>1, <3>1, <3>3, <3>4, <3>5, <3>6, <3>7 DEF NewOK
  <2>3. OwnOK(q)'
    BY <1>4, <2>1 DEF OwnOK
  <2>4. ASSUME NEW s \in Sessions PROVE KnowsArchive(q, s)' /\ (s \notin undone' => PathsOK(q, s)')
    <3>1. KnowsArchive(q, s) /\ (s \notin undone => PathsOK(q, s))
      BY <1>1 DEF UsesOK
    <3>2. Uses(q, <<"arch", s>>)' => Uses(q, <<"arch", s>>) /\ cache'[q] = cache[q]
      OBVIOUS
    <3>3. at[<<"arch", s>>].kind = "file" => at'[<<"arch", s>>].kind = "file"
      BY <1>5, <1>6
    <3>4. cache'[q][s] = "archived" /\ Uses(q, <<"log", s>>)' =>
              cache[q][s] = "archived" /\ Uses(q, <<"log", s>>)
      <4> SUFFICES ASSUME cache'[q][s] = "archived", Uses(q, <<"log", s>>)'
                   PROVE  cache[q][s] = "archived" /\ Uses(q, <<"log", s>>)
        OBVIOUS
      <4>1. cache[q][s] = "archived"
        BY <1>4, <2>1
      <4>2. ~(q = p /\ s = p)
        BY <2>1, <4>1 DEF OwnOK
      <4> QED BY <4>1, <4>2
    <3> QED BY <1>7, <3>1, <3>2, <3>3, <3>4 DEF KnowsArchive, PathsOK
  <2> QED BY <2>2, <2>3, <2>4
<1>10. FateOK'
  BY <1>8 DEF FateOK
<1>11. UsesOK'
  BY <1>9 DEF UsesOK
<1> QED BY <1>10, <1>11 DEF Inv

LEMMA TurnKeeps ==
  ASSUME Inv, NEW p \in Agents, Turn(p)
  PROVE  Inv'
<1>1. TypeOK /\ TypeOK' /\ mem'[p] \in SUBSET Turns /\ Save(p, mem'[p])
  BY TurnType DEF Inv
<1>2. /\ pc[p] = "running" /\ pc' = pc /\ ctx' = ctx /\ rot' = rot /\ disk' = disk /\ cache' = cache
      /\ undone' = undone /\ found' = found
  BY DEF Turn, rotVars
<1>3. \A q \in Agents : \A f : Uses(q, f)' => Uses(q, f)
  BY <1>2, TurnType, KeepsUses DEF SameUses, Inv
<1> QED BY <1>1, <1>2, <1>3, SaveKeeps

\* Who ends has nothing but its own name.
LEMMA ExitUses ==
  ASSUME TypeOK, NEW p \in Agents, Exit(p)
  PROVE  \A q \in Agents : \A f : Uses(q, f)' => \/ Uses(q, f) /\ cache'[q] = cache[q]
                                                 \/ q = p /\ f = <<"log", p>>
<1>1. /\ TypeOK' /\ snap'[p].own = <<>> /\ snap'[p].paths = <<>>
      /\ \A q \in Agents \ {p} : snap'[q].paths = snap[q].paths /\ snap'[q].own = snap[q].own
  BY ExitType
<1>2. /\ pc[p] = "running" /\ ctx' = [ctx EXCEPT ![p] = <<"log", p>>]
      /\ cache' = [cache EXCEPT ![p] = Unread] /\ found' = found
  BY DEF Exit
<1>3. /\ \A q \in Agents : ctx'[q] = IF q = p THEN <<"log", p>> ELSE ctx[q]
      /\ \A q \in Agents \ {p} : cache'[q] = cache[q]
  BY <1>2, ProcParts DEF TypeOK, AgentsOK, RegistryOK
<1>4. found[p] = <<>> /\ \A f : f \notin ToSet(<<>>)
  <2>1. found[p] = <<>>
    BY <1>2 DEF TypeOK, SnapsOK
  <2> QED BY <2>1 DEF ToSet
<1> SUFFICES ASSUME NEW q \in Agents, NEW f, Uses(q, f)'
             PROVE  \/ Uses(q, f) /\ cache'[q] = cache[q]
                    \/ q = p /\ f = <<"log", p>>
  OBVIOUS
<1>5. CASE q = p
  BY <1>1, <1>2, <1>3, <1>4, <1>5 DEF Uses
<1>6. CASE q # p
  <2>1. snap'[q].paths = snap[q].paths /\ snap'[q].own = snap[q].own
    BY <1>1, <1>6
  <2>2. ctx'[q] = ctx[q] /\ cache'[q] = cache[q] /\ found'[q] = found[q]
    BY <1>2, <1>3, <1>6
  <2> QED BY <2>1, <2>2 DEF Uses
<1> QED BY <1>5, <1>6

LEMMA ExitKeeps ==
  ASSUME Inv, NEW p \in Agents, Exit(p)
  PROVE  Inv'
<1>1. TypeOK /\ TypeOK' /\ mem[p] \in SUBSET Turns /\ Save(p, mem[p])
  BY ExitType DEF Inv
<1>2. /\ pc[p] = "running" /\ rot' = rot /\ disk' = disk /\ undone' = undone
      /\ pc' = [pc EXCEPT ![p] = "ended"] /\ ctx' = [ctx EXCEPT ![p] = <<"log", p>>]
      /\ cache' = [cache EXCEPT ![p] = Unread]
  BY DEF Exit, rotVars
<1>3. /\ \A q \in Agents : /\ pc'[q] = IF q = p THEN "ended" ELSE pc[q]
                           /\ ctx'[q] = IF q = p THEN <<"log", p>> ELSE ctx[q]
      /\ \A q \in Procs : cache'[q] = IF q = p THEN Unread ELSE cache[q]
      /\ p \in Procs /\ \A q \in Agents : q \in Procs
  BY <1>1, <1>2, ProcParts DEF TypeOK, AgentsOK, RegistryOK
<1>4. \A q \in Agents : \A f : Uses(q, f)' => \/ Uses(q, f) /\ cache'[q] = cache[q]
                                              \/ q = p /\ f = <<"log", p>>
  BY <1>1, ExitUses
<1>5. "ended" \notin Running /\ "ended" # "new"
  BY DEF Running, Building
<1> QED BY <1>1, <1>2, <1>3, <1>4, <1>5, SaveKeeps

LEMMA InvStep ==
  ASSUME Inv, [Next]_vars
  PROVE  Inv'
<1>1. CASE UNCHANGED vars
  <2>1. /\ fileVars' = fileVars /\ rot' = rot /\ cache' = cache /\ disk' = disk
        /\ pc' = pc /\ saved' = saved /\ writers' = writers /\ undone' = undone
        /\ ctx' = ctx /\ snap' = snap /\ found' = found
    BY <1>1 DEF vars, agentVars, listVars, rotVars, saveVars
  <2>2. TypeOK'
    BY TypeStep DEF Inv
  <2>3. \A q \in Agents : \A f : Uses(q, f)' <=> Uses(q, f)
    BY <2>1, KeepsUses DEF SameUses
  <2> QED BY <2>1, <2>2, <2>3, QuietKeeps
<1>2. ASSUME NEW p \in Agents,
             \/ Start(p) \/ Register(p) \/ StartFrom(p) \/ Turn(p) \/ Exit(p)
             \/ List(p) \/ Continue(p) \/ Scan(p) \/ Check(p) \/ TakeStamp(p) \/ LoadNumber(p)
      PROVE  Inv'
  BY <1>2, StartKeeps, RegisterKeeps, StartFromKeeps, TurnKeeps, ExitKeeps,
     ListKeeps, ScanKeeps, TakeStampKeeps, LoadNumberKeeps
<1>3. CASE Rotation
  BY <1>3, SelectKeeps, MoveKeeps, MakeLinkKeeps, RecordKeeps, CleanUpKeeps, DreamEndsKeeps DEF Rotation
<1> QED BY <1>1, <1>2, <1>3 DEF Next

LEMMA InvAlways == Spec => []Inv
<1>1. Init => Inv
  BY InitInv
<1>2. Inv /\ [Next]_vars => Inv'
  BY InvStep
<1> QED BY <1>1, <1>2, PTL DEF Spec

(* The name of a session leads to what was last saved under it, whatever   *)
(* rotations and saves have done to the files, unless the record of its    *)
(* rotation was undone or two agents have saved under that name            *)
(* (dream_steps.py, step_log_rotate).                                      *)
THEOREM NamesKept == Spec => []KeptAtName
<1>1. Inv => KeptAtName
  <2> SUFFICES ASSUME Inv, NEW s \in Sessions,
                      s \notin undone, Cardinality(writers[s]) <= 1,
                      s \in Old \/ writers[s] # {},
                      ~(rot.step = "moved" /\ rot.s = s)
               PROVE  /\ Readable(<<"log", s>>)
                      /\ at[Resolve(<<"log", s>>)].turns = saved[s]
    BY DEF KeptAtName
  <2>1. NameOK(s) /\ ~Moved(s)
    BY DEF Inv, FateOK, FateAt, Moved
  <2>2. CASE at[<<"log", s>>].kind = "file"
    <3>1. Resolve(<<"log", s>>) = <<"log", s>> /\ at[<<"log", s>>] = Context(saved[s])
      BY <2>1, <2>2 DEF NameOK, Resolve
    <3> QED BY <2>2, <3>1 DEF Readable, Context
  <2>3. CASE at[<<"log", s>>].kind = "link"
    <3>1. Resolve(<<"log", s>>) = <<"arch", s>> /\ at[<<"arch", s>>] = Context(saved[s])
      BY <2>1, <2>3 DEF NameOK, Resolve
    <3> QED BY <3>1 DEF Readable, Context
  <2> QED BY <2>1, <2>2, <2>3 DEF NameOK
<1> QED BY <1>1, InvAlways, PTL

-----------------------------------------------------------------------------
(* The invariant behind what is offered: also of sessions whose rotation   *)
(* was undone, as long as no link was moved                                *)

LinkAt(s) == at[<<"log", s>>].kind = "link"

\* Who has it that s is archived finds the link at its name, or somebody else
\* has saved it.
Known(s) == LinkAt(s) \/ writers[s] # {}
KnownTo(q, s) == LinkAt(s) \/ writers[s] \ {q} # {}

Recording(s) == rot.step = "record" /\ rot.ok /\ rot.s = s

\* The last save is at the name, or in the archive when no file has the name.
LastAt(s) ==
    Cardinality(writers[s]) <= 1 /\ (s \in Old \/ writers[s] # {}) =>
        /\ at[<<"log", s>>].kind # "empty"
        /\ at[<<"log", s>>].kind = "file" => at[<<"log", s>>].turns = saved[s]
        /\ at[<<"log", s>>].kind # "file" => at[<<"arch", s>>].kind = "file"
                                             /\ at[<<"arch", s>>].turns = saved[s]

OfferAt(s) == /\ at[<<"arch", s>>].kind # "link"
              /\ LastAt(s)
              /\ disk[s] = "archived" \/ Recording(s) => Known(s)
              /\ \A q \in Procs : cache[q][s] = "archived" => KnownTo(q, s)
              /\ \A p \in Agents : cache[p][s] = "archived" /\ Uses(p, <<"log", s>>) =>
                                       writers[s] \ {p} # {}

OfferInv == Inv /\ \A s \in Sessions \ misled : OfferAt(s)

\* A session whose files and writers stay.
LEMMA OtherOffer ==
  ASSUME NEW s \in Sessions, OfferAt(s),
         at'[<<"log", s>>] = at[<<"log", s>>], at'[<<"arch", s>>] = at[<<"arch", s>>],
         writers'[s] = writers[s], saved'[s] = saved[s],
         disk'[s] = "archived" \/ Recording(s)' => Known(s),
         \A q \in Procs : cache'[q][s] = "archived" => KnownTo(q, s),
         \A p \in Agents : cache'[p][s] = "archived" /\ Uses(p, <<"log", s>>)' =>
                               writers[s] \ {p} # {}
  PROVE  OfferAt(s)'
<1>1. /\ LinkAt(s)' <=> LinkAt(s)
      /\ Known(s)' <=> Known(s)
      /\ LastAt(s)' <=> LastAt(s)
  BY DEF LinkAt, Known, LastAt
<1>2. \A q : KnownTo(q, s)' <=> KnownTo(q, s)
  BY <1>1 DEF KnownTo
<1> QED BY <1>1, <1>2 DEF OfferAt

\* Who has not saved a session may be told of it.
LEMMA KnownToOthers ==
  ASSUME NEW s, NEW q, Known(s), q \notin writers[s]
  PROVE  KnownTo(q, s)
BY DEF Known, KnownTo

LEMMA KnownToAll ==
  ASSUME NEW s, NEW q, KnownTo(q, s)
  PROVE  Known(s)
BY DEF Known, KnownTo

LEMMA InitOffer ==
  ASSUME Init
  PROVE  OfferInv
<1>1. Inv
  BY InitInv
<1>2. ASSUME NEW s \in Sessions PROVE OfferAt(s)
  <2>1. /\ s \in Agents => s \notin Old
        /\ <<"log", s>>[1] = "log" /\ <<"log", s>>[2] = s /\ <<"arch", s>>[1] # "log"
        /\ <<"log", s>> \in Files /\ <<"arch", s>> \in Files
    BY ProcParts, FileParts
  <2>2. s \in Old => at[<<"log", s>>] = Context({<<s, 1>>}) /\ saved[s] = {<<s, 1>>}
    BY <2>1 DEF Init
  <2>3. at[<<"arch", s>>] = Absent /\ writers[s] = {}
    BY <2>1 DEF Init
  <2>4. disk[s] # "archived" /\ ~Recording(s)
    BY DEF Init, Recording, Idle
  <2>5. \A q \in Procs : cache[q][s] # "archived"
    BY DEF Init, Unread
  <2>6. LastAt(s)
    BY <2>2, <2>3, FileKinds DEF LastAt
  <2> QED BY <2>3, <2>4, <2>5, <2>6, ProcParts, FileKinds DEF OfferAt
<1> QED BY <1>1, <1>2 DEF OfferInv

LEMMA StartOffer ==
  ASSUME OfferInv, NEW p \in Agents, Start(p), NEW s \in Sessions, OfferAt(s)
  PROVE  OfferAt(s)'
<1> DEFINE log == <<"log", p>>
<1>1. /\ TypeOK /\ TypeOK' /\ SameLists
      /\ \A g \in Files : at'[g] = IF g = log THEN Placeholder ELSE at[g]
      /\ cache' = [cache EXCEPT ![p] = disk']
  BY StartType DEF Inv, OfferInv
<1>2. \A t \in Sessions : disk'[t] = "archived" <=> disk[t] = "archived"
  BY StartType DEF Inv, OfferInv
<1>3. /\ pc[p] = "new" /\ ctx' = ctx /\ rot' = rot /\ saved' = saved /\ writers' = writers
      /\ found' = found
  BY DEF Start, rotVars, saveVars
<1>4. p \in Procs /\ p \in Sessions /\ p # Dream /\ p \notin Old
  BY ProcParts
<1>5. \A q \in Procs : cache'[q] = IF q = p THEN disk' ELSE cache[q]
  BY <1>1 DEF TypeOK, RegistryOK
<1>6. \A q \in Agents : \A f : Uses(q, f)' <=> Uses(q, f)
  BY <1>1, <1>3, KeepsUses DEF SameUses
<1>7. NewOK(p)
  BY DEF OfferInv, Inv, UsesOK
<1>8. Recording(s)' <=> Recording(s)
  BY <1>3 DEF Recording
<1>9. CASE s # p
  <2>1. at'[<<"log", s>>] = at[<<"log", s>>] /\ at'[<<"arch", s>>] = at[<<"arch", s>>]
    BY <1>1, <1>9, FileParts
  <2>2. p \notin writers[s]
    BY <1>3, <1>7 DEF NewOK
  <2>3. \A q \in Procs : cache'[q][s] = "archived" => KnownTo(q, s)
    <3> SUFFICES ASSUME NEW q \in Procs, cache'[q][s] = "archived" PROVE KnownTo(q, s)
      OBVIOUS
    <3>1. CASE q = p
      <4>1. Known(s)
        BY <1>2, <1>4, <1>5, <3>1 DEF OfferAt
      <4> QED BY <2>2, <3>1, <4>1, KnownToOthers
    <3>2. CASE q # p
      BY <1>5, <3>2 DEF OfferAt
    <3> QED BY <3>1, <3>2
  <2>4. \A q \in Agents : cache'[q][s] = "archived" /\ Uses(q, <<"log", s>>)' => writers[s] \ {q} # {}
    <3> SUFFICES ASSUME NEW q \in Agents, cache'[q][s] = "archived", Uses(q, <<"log", s>>)
                 PROVE  writers[s] \ {q} # {}
      BY <1>6
    <3>1. q # p
      <4>1. pc[p] \notin Running /\ ctx[p] = <<"log", p>>
        BY <1>3, <1>7 DEF Running, Building, NewOK
      <4>2. ~Uses(p, <<"log", s>>)
        BY <1>1, <1>9, <4>1, NoLists
      <4> QED BY <4>2
    <3>2. cache[q][s] = "archived"
      BY <1>5, <3>1, ProcParts
    <3> QED BY <3>2 DEF OfferAt
  <2> QED BY <1>2, <1>3, <1>8, <2>1, <2>3, <2>4, OtherOffer DEF OfferAt
<1>10. CASE s = p
  <2>1. at'[<<"log", s>>] = Placeholder /\ at'[<<"arch", s>>].kind = "none" /\ writers'[s] = {}
    BY <1>1, <1>3, <1>4, <1>7, <1>10, FileParts DEF NewOK
  <2>2. disk[s] = "none" /\ disk'[s] # "archived" /\ ~Recording(s)'
    BY <1>2, <1>3, <1>4, <1>7, <1>8, <1>10 DEF NewOK, Recording, Rotated, InHand
  <2>3. \A q \in Procs : cache'[q][s] # "archived"
    <3>1. \A q \in Procs : cache[q][s] \in {"none", "unread"}
      BY <1>3, <1>7, <1>10 DEF NewOK
    <3> QED BY <1>5, <2>2, <3>1
  <2>4. LastAt(s)'
    BY <1>4, <1>10, <2>1 DEF LastAt
  <2> QED BY <2>1, <2>2, <2>3, <2>4, ProcParts DEF OfferAt
<1> QED BY <1>9, <1>10

LEMMA RegisterOffer ==
  ASSUME OfferInv, NEW p \in Agents, Register(p), NEW s \in Sessions, OfferAt(s)
  PROVE  OfferAt(s)'
<1>1. TypeOK /\ p \in Procs /\ pc[p] \in Running \cup {"read"}
  BY ProcParts DEF OfferInv, Inv, Register, Running
<1>2. /\ cache' = [cache EXCEPT ![p] = [cache[p] EXCEPT ![p] = "active"]]
      /\ disk' = [cache[p] EXCEPT ![p] = "active"]
      /\ at' = at /\ writers' = writers /\ saved' = saved /\ rot' = rot
  BY DEF Register, Saves, fileVars, saveVars, rotVars
<1>3. SameUses
  BY KeepsUses DEF Register, listVars
<1>4. cache[p] \in Registries
  BY <1>1 DEF TypeOK, RegistryOK
<1>5. disk'[s] = "archived" => cache[p][s] = "archived"
  BY <1>2, <1>4 DEF Registries
<1>6. ASSUME NEW q \in Procs, cache'[q][s] = "archived" PROVE cache[q][s] = "archived"
  <2>1. CASE q = p
    BY <1>1, <1>2, <1>4, <1>6, <2>1 DEF Registries, TypeOK, RegistryOK
  <2>2. CASE q # p
    BY <1>1, <1>2, <1>6, <2>2 DEF TypeOK, RegistryOK
  <2> QED BY <2>1, <2>2
<1>7. disk'[s] = "archived" \/ Recording(s)' => Known(s)
  BY <1>1, <1>2, <1>5, KnownToAll DEF OfferAt, Recording
<1> QED BY <1>2, <1>3, <1>6, <1>7, OtherOffer, ProcParts DEF OfferAt, SameUses

\* A path that an agent has from a list, or did have.
LEMMA OfferedUse ==
  ASSUME OfferInv, NEW p \in Agents, NEW g \in Offered(p), NEW s \in Sessions, OfferAt(s),
         PathOf(p, g) = <<"log", s>>, cache[p][s] = "archived"
  PROVE  writers[s] \ {p} # {}
<1>1. /\ PathOf(p, g)[2] = g[2] /\ Resolve(PathOf(p, g)) = g /\ g \in Files
  BY PathLeads, OfferedFiles
<1>2. g[2] = s
  BY <1>1
<1>3. Entry(p, s) = <<"arch", s>> /\ Resolve(<<"arch", s>>) = <<"arch", s>>
  BY DEF Entry, Resolve
<1>4. g # <<"arch", s>>
  <2> SUFFICES ASSUME g = <<"arch", s>> PROVE FALSE
    OBVIOUS
  <2>1. PathOf(p, g) = <<"arch", s>>
    BY <1>2, <1>3 DEF PathOf
  <2> QED BY <2>1
<1>5. ~LinkAt(s)
  BY <1>1, <1>4, FileParts DEF Resolve, LinkAt
<1> QED BY <1>5, ProcParts DEF OfferAt, KnownTo

LEMMA BrowseOffer ==
  ASSUME OfferInv, NEW p \in Agents, NEW s \in Sessions, OfferAt(s),
         UNCHANGED <<fileVars, rot, cache, disk, saved, writers>>,
         \A q \in Agents \ {p} : \A f : Uses(q, f)' => Uses(q, f),
         \A f \in Files : Uses(p, f)' => Uses(p, f) \/ \E g \in Offered(p) : f = PathOf(p, g)
  PROVE  OfferAt(s)'
<1>1. at' = at /\ cache' = cache /\ disk' = disk /\ saved' = saved /\ writers' = writers
  BY DEF fileVars
<1>2. Recording(s)' <=> Recording(s)
  BY DEF Recording
<1>3. ASSUME NEW q \in Agents, cache[q][s] = "archived", Uses(q, <<"log", s>>)'
      PROVE  writers[s] \ {q} # {}
  <2>1. CASE Uses(q, <<"log", s>>)
    BY <1>3, <2>1 DEF OfferAt
  <2>2. CASE ~Uses(q, <<"log", s>>)
    <3>1. q = p /\ <<"log", s>> \in Files
      BY <1>3, <2>2, FileParts
    <3>2. PICK g \in Offered(p) : PathOf(p, g) = <<"log", s>>
      BY <1>3, <2>2, <3>1
    <3> QED BY <1>3, <3>1, <3>2, OfferedUse
  <2> QED BY <2>1, <2>2
<1> QED BY <1>1, <1>2, <1>3, OtherOffer DEF OfferAt

LEMMA LoadOffer ==
  ASSUME OfferInv, NEW p \in Agents, NEW s \in Sessions, OfferAt(s), NEW path, Load(p, path),
         QuietLists, Uses(p, path) \/ \E g \in Offered(p) : path = PathOf(p, g)
  PROVE  OfferAt(s)'
<1>1. /\ ctx' = [ctx EXCEPT ![p] = path] /\ snap' = snap /\ found' = found
      /\ UNCHANGED <<fileVars, rot, cache, disk, saved, writers>>
  BY DEF Load, QuietLists, rotVars, saveVars
<1>2. \A q \in Agents : ctx'[q] = IF q = p THEN path ELSE ctx[q]
  BY <1>1 DEF OfferInv, Inv, TypeOK, AgentsOK
<1>3. \A g \in Files : Uses(p, g)' => Uses(p, g) \/ \E h \in Offered(p) : g = PathOf(p, h)
  BY <1>1, <1>2 DEF Uses
<1>4. \A q \in Agents \ {p} : \A f : Uses(q, f)' => Uses(q, f)
  BY <1>1, <1>2 DEF Uses
<1> QED BY <1>1, <1>3, <1>4, BrowseOffer

LEMMA ListingOffer ==
  ASSUME OfferInv, NEW p \in Agents, NEW s \in Sessions, OfferAt(s), Listing,
         \A q \in Agents \ {p} : snap'[q] = snap[q] /\ found'[q] = found[q],
         ToSet(snap'[p].paths) \subseteq ToSet(snap[p].paths) \cup ToSet(found[p]),
         snap'[p].own \in {snap[p].own, ctx[p]},
         \/ ToSet(found'[p]) \subseteq ToSet(found[p])
         \/ ToSet(found'[p]) \subseteq {PathOf(p, f) : f \in Offered(p)}
  PROVE  OfferAt(s)'
<1>1. ctx' = ctx /\ UNCHANGED <<fileVars, rot, cache, disk, saved, writers>>
  BY DEF Listing, rotVars, saveVars
<1>2. \A f \in Files : Uses(p, f)' => Uses(p, f) \/ \E g \in Offered(p) : f = PathOf(p, g)
  BY <1>1 DEF Uses
<1>3. \A q \in Agents \ {p} : \A f : Uses(q, f)' => Uses(q, f)
  BY <1>1 DEF Uses
<1> QED BY <1>1, <1>2, <1>3, BrowseOffer

LEMMA BrowsingOffer ==
  ASSUME OfferInv, NEW p \in Agents, NEW s \in Sessions, OfferAt(s),
         \/ StartFrom(p) \/ List(p) \/ Continue(p) \/ Scan(p) \/ Check(p) \/ TakeStamp(p)
         \/ LoadNumber(p)
  PROVE  OfferAt(s)'
<1>0. TypeOK /\ ToSet(<<>>) = {}
  BY DEF OfferInv, Inv, ToSet
<1>1. CASE StartFrom(p)
  BY <1>0, <1>1, StartFromType, LoadOffer
<1>2. CASE Rebuild(p) /\ (List(p) \/ Continue(p))
  <2>1. pc[p] = "running" /\ found' = found /\ Listing
    BY <1>0, <1>2, ListType, ContinueType
  <2>2. /\ snap'[p].own = Own(p) /\ snap'[p].paths = <<>>
        /\ \A q \in Agents \ {p} : snap'[q] = snap[q]
    BY <1>0, <1>2, <2>1, RebuildType
  <2>3. Own(p) \in {snap[p].own, ctx[p]}
    BY DEF Own
  <2> QED BY <1>0, <2>1, <2>2, <2>3, ListingOffer
<1>3. CASE Continue(p) /\ snap' = snap
  <2>1. found' = found /\ Listing
    BY <1>0, <1>3, ContinueType
  <2> QED BY <1>3, <2>1, ListingOffer
<1>4. CASE Scan(p)
  BY <1>0, <1>4, ScanType, ListingOffer
<1>5. CASE Check(p)
  BY <1>0, <1>5, CheckType, ListingOffer
<1>6. CASE TakeStamp(p)
  <2>1. /\ Listing /\ snap'[p].paths = found[p] /\ snap'[p].own = snap[p].own /\ found'[p] = <<>>
        /\ \A q \in Agents \ {p} : snap'[q] = snap[q] /\ found'[q] = found[q]
    BY <1>0, <1>6, TakeStampType
  <2> QED BY <1>0, <2>1, ListingOffer
<1>7. CASE LoadNumber(p)
  <2>1. QuietLists
    BY <1>0, <1>7, LoadNumberType
  <2>2. CASE Listing
    BY <2>1, <2>2, ListingOffer DEF QuietLists
  <2>3. ASSUME NEW path \in ToSet(snap[p].paths), Load(p, path) PROVE OfferAt(s)'
    <3>1. Uses(p, path)
      BY <2>3 DEF Uses
    <3> QED BY <2>1, <2>3, <3>1, LoadOffer
  <2> QED BY <1>0, <1>7, <2>2, <2>3, LoadNumberType
<1> QED BY <1>0, <1>1, <1>2, <1>3, <1>4, <1>5, <1>6, <1>7, ListType, ContinueType

\* An agent saves to its file, and may end with it.
LEMMA SaveOffer ==
  ASSUME OfferInv, NEW p \in Agents, NEW turns \in SUBSET Turns, Save(p, turns),
         NEW s \in Sessions, OfferAt(s), rot' = rot, disk' = disk,
         \A q \in Procs : cache'[q] = cache[q] \/ (q = p /\ cache'[q] = Unread),
         \A q \in Agents : \A f : Uses(q, f)' => \/ Uses(q, f) /\ cache'[q] = cache[q]
                                                 \/ q = p /\ f = <<"log", p>>
  PROVE  OfferAt(s)'
<1> DEFINE s0 == ctx[p][2]
           log == <<"log", s0>>
           arch == <<"arch", s0>>
<1>1. /\ Inv /\ TypeOK /\ UsesOK /\ p \in Procs /\ p \in Sessions
  BY ProcParts DEF OfferInv, Inv
<1>2. /\ s0 \in Sessions /\ ctx[p] \in Files /\ log \in Files /\ arch \in Files
      /\ ctx[p] = log \/ ctx[p] = arch
  BY <1>1, FileParts DEF TypeOK, AgentsOK
<1>3. /\ \A g \in Files : at'[g] = IF g = ctx[p] THEN Context(turns) ELSE at[g]
      /\ saved'[s] = IF s = s0 THEN turns ELSE saved[s]
      /\ writers'[s] = IF s = s0 THEN writers[s] \cup {p} ELSE writers[s]
  BY <1>1, SaveType
<1>4. \A q \in Procs : cache'[q][s] = "archived" => cache[q][s] = "archived" /\ cache'[q] = cache[q]
  BY UnreadType
<1>5. Recording(s)' <=> Recording(s)
  BY DEF Recording
<1>6. ASSUME NEW q \in Agents, cache'[q][s] = "archived", Uses(q, <<"log", s>>)'
      PROVE  writers[s] \ {q} # {}
  <2>1. cache[q][s] = "archived" /\ q \in Procs
    BY <1>4, <1>6, ProcParts
  <2>2. ~(q = p /\ s = p)
    BY <1>1, <2>1 DEF UsesOK, OwnOK
  <2>3. Uses(q, <<"log", s>>)
    BY <1>6, <2>2
  <2> QED BY <2>1, <2>3 DEF OfferAt
<1> HIDE DEF s0
<1>7. CASE s # s0
  <2>1. at'[<<"log", s>>] = at[<<"log", s>>] /\ at'[<<"arch", s>>] = at[<<"arch", s>>]
    BY <1>2, <1>3, <1>7, FileParts
  <2>2. writers'[s] = writers[s] /\ saved'[s] = saved[s]
    BY <1>3, <1>7
  <2>3. \A q \in Procs : cache'[q][s] = "archived" => KnownTo(q, s)
    BY <1>4 DEF OfferAt
  <2>4. disk'[s] = "archived" \/ Recording(s)' => Known(s)
    BY <1>5 DEF OfferAt
  <2> QED BY <1>6, <2>1, <2>2, <2>3, <2>4, OtherOffer
<1>8. CASE s = s0
  <2>1. writers'[s] = writers[s] \cup {p} /\ saved'[s] = turns
    BY <1>3, <1>8
  <2>2. (disk'[s] = "archived" \/ Recording(s)' => Known(s)') /\ p \in writers'[s]
    BY <2>1 DEF Known
  <2>3. \A q \in Agents : cache'[q][s] = "archived" /\ Uses(q, <<"log", s>>)' => writers'[s] \ {q} # {}
    BY <1>6, <2>1
  <2>4. CASE ctx[p] = log
    <3>1. at'[<<"log", s>>] = Context(turns) /\ at'[<<"arch", s>>] = at[<<"arch", s>>]
      BY <1>2, <1>3, <1>8, <2>4, FileParts
    <3>2. LastAt(s)'
      BY <2>1, <3>1, FileKinds DEF LastAt
    <3>3. ASSUME NEW q \in Procs, cache'[q][s] = "archived" PROVE KnownTo(q, s)'
      <4>1. CASE q = p
        <5>1. Uses(p, <<"log", s>>) /\ cache[p][s] = "archived"
          BY <1>4, <1>8, <2>4, <3>3, <4>1 DEF Uses
        <5>2. writers[s] \ {p} # {}
          BY <5>1 DEF OfferAt
        <5> QED BY <2>1, <4>1, <5>2 DEF KnownTo
      <4>2. CASE q # p
        BY <2>1, <4>2 DEF KnownTo
      <4> QED BY <4>1, <4>2
    <3> QED BY <2>2, <2>3, <3>1, <3>2, <3>3 DEF OfferAt
  <2>5. CASE ctx[p] = arch
    <3>1. at'[<<"arch", s>>] = Context(turns) /\ at'[<<"log", s>>] = at[<<"log", s>>]
      BY <1>2, <1>3, <1>8, <2>5, FileParts
    <3>2. KnownTo(p, s)
      <4>1. Uses(p, <<"arch", s>>)
        BY <1>8, <2>5 DEF Uses
      <4>2. cache[p][s] = "archived"
        BY <1>1, <4>1 DEF UsesOK, KnowsArchive
      <4> QED BY <1>1, <4>2 DEF OfferAt
    <3>3. LastAt(s)'
      <4> SUFFICES ASSUME Cardinality(writers'[s]) <= 1 PROVE LastAt(s)'
        BY DEF LastAt
      <4>1. writers[s] \ {p} = {}
        <5> SUFFICES ASSUME NEW w \in writers[s], w # p PROVE FALSE
          OBVIOUS
        <5>1. writers[s] \subseteq Agents /\ IsFiniteSet(Agents)
          BY <1>1, WritersType, SessionsAssumption
        <5>2. IsFiniteSet(writers'[s])
          BY <2>1, <5>1, FS_Subset, FS_AddElement
        <5> QED BY <2>1, <5>2, AtMostOne
      <4>2. at'[<<"log", s>>].kind = "link"
        BY <3>1, <3>2, <4>1 DEF KnownTo, LinkAt
      <4> QED BY <2>1, <3>1, <4>2, FileKinds DEF LastAt
    <3>4. ASSUME NEW q \in Procs, cache'[q][s] = "archived" PROVE KnownTo(q, s)'
      <4>1. KnownTo(q, s)
        BY <1>4, <3>4 DEF OfferAt
      <4> QED BY <2>1, <3>1, <4>1 DEF KnownTo, LinkAt
    <3>5. at'[<<"arch", s>>].kind # "link"
      BY <3>1, FileKinds
    <3> QED BY <2>2, <2>3, <3>3, <3>4, <3>5 DEF OfferAt
  <2> QED BY <1>2, <2>4, <2>5
<1> QED BY <1>7, <1>8

LEMMA TurnOffer ==
  ASSUME OfferInv, NEW p \in Agents, Turn(p), NEW s \in Sessions, OfferAt(s)
  PROVE  OfferAt(s)'
<1>1. mem'[p] \in SUBSET Turns /\ Save(p, mem'[p]) /\ SameLists
  BY TurnType DEF OfferInv, Inv
<1>2. ctx' = ctx /\ rot' = rot /\ disk' = disk /\ cache' = cache /\ found' = found
  BY DEF Turn, rotVars
<1>3. \A q \in Agents : \A f : Uses(q, f)' => Uses(q, f)
  BY <1>1, <1>2, KeepsUses DEF SameUses
<1> QED BY <1>1, <1>2, <1>3, SaveOffer

LEMMA ExitOffer ==
  ASSUME OfferInv, NEW p \in Agents, Exit(p), NEW s \in Sessions, OfferAt(s)
  PROVE  OfferAt(s)'
<1>1. Inv /\ TypeOK /\ mem[p] \in SUBSET Turns /\ Save(p, mem[p])
  BY ExitType DEF OfferInv, Inv
<1>2. /\ rot' = rot /\ disk' = disk
      /\ \A q \in Procs : cache'[q] = cache[q] \/ (q = p /\ cache'[q] = Unread)
  BY <1>1, ProcParts DEF Exit, rotVars, Inv, TypeOK, RegistryOK
<1>3. \A q \in Agents : \A f : Uses(q, f)' => \/ Uses(q, f) /\ cache'[q] = cache[q]
                                              \/ q = p /\ f = <<"log", p>>
  BY <1>1, ExitUses
<1> QED BY <1>1, <1>2, <1>3, SaveOffer

LEMMA SelectOffer ==
  ASSUME OfferInv, Select, NEW s \in Sessions, OfferAt(s)
  PROVE  OfferAt(s)'
<1>1. /\ TypeOK /\ at' = at /\ rot'.step \in {"idle", "pick"}
      /\ \A q \in Agents : cache'[q] = cache[q]
      /\ cache[Dream] # Unread => cache'[Dream] = cache[Dream]
      /\ cache[Dream] = Unread => disk' = cache'[Dream]
      /\ disk'[s] = "archived" <=> disk[s] = "archived"
  BY SelectType DEF OfferInv, Inv, fileVars
<1>2. SameUses /\ saved' = saved /\ writers' = writers
  BY KeepsUses DEF Select, agentVars, listVars, saveVars
<1>3. ~Recording(s)' /\ Dream \notin writers[s]
  BY <1>1, WritersType DEF Recording
<1>4. ASSUME NEW q \in Procs, cache'[q][s] = "archived" PROVE KnownTo(q, s)
  <2>1. CASE cache'[q] = cache[q]
    BY <1>4, <2>1 DEF OfferAt
  <2>2. CASE cache'[q] # cache[q]
    <3>1. q = Dream /\ disk[s] = "archived"
      BY <1>1, <1>4, <2>2, ProcParts
    <3>2. Known(s)
      BY <3>1 DEF OfferAt
    <3> QED BY <1>3, <3>1, <3>2, KnownToOthers
  <2> QED BY <2>1, <2>2
<1>5. \A q \in Agents : cache'[q][s] = "archived" /\ Uses(q, <<"log", s>>)' => writers[s] \ {q} # {}
  BY <1>1, <1>2 DEF OfferAt, SameUses
<1>6. disk'[s] = "archived" \/ Recording(s)' => Known(s)
  BY <1>1, <1>3 DEF OfferAt
<1> QED BY <1>1, <1>2, <1>4, <1>5, <1>6, OtherOffer

LEMMA MoveOffer ==
  ASSUME OfferInv, NEW s0 \in Sessions, Move(s0), NEW s \in Sessions, OfferAt(s),
         s = s0 => ~LinkAt(s)
  PROVE  OfferAt(s)'
<1>1. /\ TypeOK /\ rot'.step = "moved" /\ SameLists /\ found' = found
      /\ \A h \in Files : at'[h] = IF h = <<"arch", s0>> THEN at[<<"log", s0>>]
                                   ELSE IF h = <<"log", s0>> THEN Absent ELSE at[h]
  BY MoveType DEF OfferInv, Inv
<1>2. /\ ctx' = ctx /\ saved' = saved /\ writers' = writers /\ cache' = cache /\ disk' = disk
      /\ Exists(<<"log", s0>>)
  BY DEF Move, agentVars, saveVars
<1>3. SameUses
  BY <1>1, <1>2, KeepsUses
<1>4. ~Recording(s)'
  BY <1>1 DEF Recording
<1>5. \A q \in Agents : cache'[q][s] = "archived" /\ Uses(q, <<"log", s>>)' => writers[s] \ {q} # {}
  BY <1>2, <1>3 DEF OfferAt, SameUses
<1>6. CASE s # s0
  <2>1. at'[<<"log", s>>] = at[<<"log", s>>] /\ at'[<<"arch", s>>] = at[<<"arch", s>>]
    BY <1>1, <1>6, FileParts
  <2>2. /\ disk'[s] = "archived" \/ Recording(s)' => Known(s)
        /\ \A q \in Procs : cache'[q][s] = "archived" => KnownTo(q, s)
    BY <1>2, <1>4 DEF OfferAt
  <2> QED BY <1>2, <1>5, <2>1, <2>2, OtherOffer
<1>7. CASE s = s0
  <2>1. at'[<<"log", s>>] = Absent /\ at'[<<"arch", s>>] = at[<<"log", s>>]
    BY <1>1, <1>7, FileParts
  <2>2. ~LinkAt(s) /\ ~LinkAt(s)' /\ at[<<"log", s>>].kind \in {"empty", "file"}
    <3>1. ~LinkAt(s) /\ Resolve(<<"log", s>>) = <<"log", s>>
      BY <1>7 DEF LinkAt, Resolve
    <3> QED BY <1>2, <1>7, <2>1, <3>1, FileKinds DEF LinkAt, Exists
  <2>3. LastAt(s)'
    BY <1>2, <2>1, <2>2, FileKinds DEF LastAt, OfferAt
  <2>4. disk'[s] = "archived" \/ Recording(s)' => Known(s)'
    BY <1>2, <1>4, <2>2 DEF OfferAt, Known
  <2>5. \A q \in Procs : cache'[q][s] = "archived" => KnownTo(q, s)'
    BY <1>2, <2>2 DEF OfferAt, KnownTo
  <2> QED BY <1>2, <1>5, <2>1, <2>2, <2>3, <2>4, <2>5 DEF OfferAt
<1> QED BY <1>6, <1>7

LEMMA MakeLinkOffer ==
  ASSUME OfferInv, MakeLink, NEW s \in Sessions, OfferAt(s)
  PROVE  OfferAt(s)'
<1> DEFINE s0 == rot.s
           log == <<"log", s0>>
           arch == <<"arch", s0>>
<1>1. /\ TypeOK /\ s0 \in Sessions /\ rot.step = "moved" /\ rot'.s = s0
      /\ SameLists /\ found' = found
      /\ \/ /\ at[log].kind = "none"
            /\ \A h \in Files : at'[h] = IF h = log THEN Link ELSE at[h]
         \/ ~rot'.ok /\ at' = at
         \/ /\ at[log].kind = "none" /\ ~rot'.ok
            /\ \A h \in Files : at'[h] = IF h = log THEN at[arch]
                                         ELSE IF h = arch THEN Absent ELSE at[h]
  BY MakeLinkType DEF OfferInv, Inv, fileVars
<1>2. /\ ctx' = ctx /\ saved' = saved /\ writers' = writers /\ cache' = cache /\ disk' = disk
  BY DEF MakeLink, agentVars, saveVars
<1>3. SameUses
  BY <1>1, <1>2, KeepsUses
<1>4. \A q \in Agents : cache'[q][s] = "archived" /\ Uses(q, <<"log", s>>)' => writers[s] \ {q} # {}
  BY <1>2, <1>3 DEF OfferAt, SameUses
<1>5. Recording(s)' => s = s0 /\ rot'.ok
  BY <1>1 DEF Recording
<1> HIDE DEF s0
<1>6. CASE s # s0 \/ (~rot'.ok /\ at' = at)
  <2>1. at'[<<"log", s>>] = at[<<"log", s>>] /\ at'[<<"arch", s>>] = at[<<"arch", s>>]
    BY <1>1, <1>6, FileParts
  <2>2. /\ disk'[s] = "archived" \/ Recording(s)' => Known(s)
        /\ \A q \in Procs : cache'[q][s] = "archived" => KnownTo(q, s)
    BY <1>2, <1>5, <1>6 DEF OfferAt
  <2> QED BY <1>2, <1>4, <2>1, <2>2, OtherOffer
<1>7. CASE /\ s = s0 /\ at[log].kind = "none"
           /\ \A h \in Files : at'[h] = IF h = log THEN Link ELSE at[h]
  <2>1. at'[<<"log", s>>] = Link /\ at'[<<"arch", s>>] = at[<<"arch", s>>]
    BY <1>7, FileParts
  <2>2. LinkAt(s)'
    BY <2>1, FileKinds DEF LinkAt
  <2>3. LastAt(s)'
    BY <1>2, <1>7, <2>1, FileKinds DEF LastAt, OfferAt
  <2> QED BY <1>2, <1>4, <2>1, <2>2, <2>3 DEF OfferAt, Known, KnownTo
<1>8. CASE /\ s = s0 /\ at[log].kind = "none" /\ ~rot'.ok
           /\ \A h \in Files : at'[h] = IF h = log THEN at[arch]
                                        ELSE IF h = arch THEN Absent ELSE at[h]
  <2>1. at'[<<"log", s>>] = at[<<"arch", s>>] /\ at'[<<"arch", s>>] = Absent
    BY <1>8, FileParts
  <2>2. ~LinkAt(s) /\ ~LinkAt(s)' /\ at'[<<"arch", s>>].kind # "link"
    BY <1>8, <2>1, FileKinds DEF LinkAt, OfferAt
  <2>3. LastAt(s)'
    BY <1>2, <1>8, <2>1, FileKinds DEF LastAt, OfferAt
  <2>4. disk'[s] = "archived" \/ Recording(s)' => Known(s)'
    BY <1>2, <1>5, <1>8, <2>2 DEF OfferAt, Known
  <2>5. \A q \in Procs : cache'[q][s] = "archived" => KnownTo(q, s)'
    BY <1>2, <2>2 DEF OfferAt, KnownTo
  <2> QED BY <1>2, <1>4, <2>2, <2>3, <2>4, <2>5 DEF OfferAt
<1> QED BY <1>1, <1>6, <1>7, <1>8

\* The rotation saves the registry, or ends.
LEMMA RegistryOffer ==
  ASSUME OfferInv, NEW s \in Sessions, OfferAt(s), SameUses,
         at' = at, saved' = saved, writers' = writers, ~Recording(s)',
         \A q \in Agents : cache'[q] = cache[q],
         disk'[s] = "archived" => Known(s),
         cache'[Dream][s] = "archived" => Known(s)
  PROVE  OfferAt(s)'
<1>1. Dream \notin writers[s]
  BY WritersType DEF OfferInv, Inv
<1>2. \A q \in Procs : cache'[q][s] = "archived" => KnownTo(q, s)
  BY <1>1, KnownToOthers, ProcParts DEF OfferAt
<1>3. \A q \in Agents : cache'[q][s] = "archived" /\ Uses(q, <<"log", s>>)' => writers[s] \ {q} # {}
  BY DEF OfferAt, SameUses
<1> QED BY <1>2, <1>3, OtherOffer

LEMMA RecordsOffer ==
  ASSUME OfferInv, Record \/ CleanUp \/ DreamEnds, NEW s \in Sessions, OfferAt(s)
  PROVE  OfferAt(s)'
<1>1. TypeOK /\ Dream \in Procs /\ \A q \in Agents : q \in Procs /\ q # Dream
  BY ProcParts DEF OfferInv, Inv
<1>2. SameUses /\ at' = at /\ saved' = saved /\ writers' = writers
  BY KeepsUses DEF Record, CleanUp, DreamEnds, agentVars, listVars, fileVars, saveVars
<1>3. cache[Dream][s] = "archived" => Known(s)
  BY <1>1, KnownToAll DEF OfferAt
<1>4. disk[s] = "archived" \/ Recording(s) => Known(s)
  BY DEF OfferAt
<1>5. ASSUME NEW e, SavedBy(Dream, e), e[s] = "archived" => Known(s), ~Recording(s)'
      PROVE  OfferAt(s)'
  <2>1. disk'[s] = e[s] /\ cache'[Dream] = e /\ \A q \in Agents : cache'[q] = cache[q]
    BY <1>1, <1>5 DEF SavedBy
  <2> QED BY <1>2, <1>5, <2>1, RegistryOffer
<1>6. CASE Record
  <2>1. /\ rot.step = "record" /\ rot.s \in Sessions /\ rot'.step = "pick"
        /\ cache[Dream] \in Registries
    BY <1>1, <1>6, RecordType DEF TypeOK, RegistryOK
  <2>2. ~Recording(s)'
    BY <2>1 DEF Recording
  <2>3. CASE rot.ok /\ SavedBy(Dream, [cache[Dream] EXCEPT ![rot.s] = "archived"])
    <3> DEFINE e == [cache[Dream] EXCEPT ![rot.s] = "archived"]
    <3>1. e[s] = "archived" => cache[Dream][s] = "archived" \/ Recording(s)
      BY <2>1, <2>3 DEF Registries, Recording
    <3> HIDE DEF e
    <3>2. SavedBy(Dream, e)
      BY <2>3 DEF e
    <3> QED BY <1>3, <1>4, <1>5, <2>2, <3>1, <3>2
  <2>4. CASE SavedBy(Dream, [cache[Dream] EXCEPT ![rot.s] = "kept"])
    <3> DEFINE e == [cache[Dream] EXCEPT ![rot.s] = "kept"]
    <3>1. e[s] = "archived" => cache[Dream][s] = "archived"
      BY <2>1 DEF Registries
    <3> HIDE DEF e
    <3>2. SavedBy(Dream, e)
      BY <2>4 DEF e
    <3> QED BY <1>3, <1>5, <2>2, <3>1, <3>2
  <2>5. CASE UNCHANGED <<disk, cache, undone>>
    BY <1>2, <1>3, <1>4, <2>2, <2>5, RegistryOffer
  <2> QED BY <1>1, <1>6, <2>3, <2>4, <2>5, RecordType
<1>7. CASE CleanUp
  <2>1. ~Recording(s)'
    <3>1. rot' = Idle /\ Idle.step = "idle"
      BY <1>1, <1>7, CleanUpType DEF Idle
    <3> QED BY <3>1 DEF Recording
  <2>2. CASE UNCHANGED <<disk, cache, undone>>
    BY <1>2, <1>3, <1>4, <2>1, <2>2, RegistryOffer
  <2>3. ASSUME NEW e, SavedBy(Dream, e), \A t \in Sessions : e[t] \in {cache[Dream][t], "none"}
        PROVE  OfferAt(s)'
    <3>1. e[s] = "archived" => cache[Dream][s] = "archived"
      BY <2>3
    <3> QED BY <1>3, <1>5, <2>1, <2>3, <3>1
  <2> QED BY <1>1, <1>7, <2>2, <2>3, CleanUpType
<1>8. CASE DreamEnds
  <2>1. /\ rot' = Idle /\ disk' = disk
        /\ \A q \in Procs : cache'[q] = IF q = Dream THEN Unread ELSE cache[q]
    BY <1>1, <1>8, DreamEndsType DEF DreamEnds
  <2>2. ~Recording(s)'
    BY <2>1 DEF Recording, Idle
  <2>3. cache'[Dream][s] # "archived" /\ \A q \in Agents : cache'[q] = cache[q]
    BY <1>1, <2>1, UnreadType
  <2> QED BY <1>2, <1>4, <2>1, <2>2, <2>3, RegistryOffer
<1> QED BY <1>6, <1>7, <1>8

LEMMA OfferStep ==
  ASSUME OfferInv, [Next]_vars
  PROVE  OfferInv'
<1>1. Inv'
  BY InvStep DEF OfferInv
<1>2. ASSUME NEW s \in Sessions \ misled' PROVE OfferAt(s)'
  <2>1. s \in Sessions /\ (s \notin misled => OfferAt(s))
    BY DEF OfferInv
  <2>2. CASE UNCHANGED vars
    <3>1. /\ at' = at /\ rot' = rot /\ cache' = cache /\ disk' = disk /\ misled' = misled
          /\ saved' = saved /\ writers' = writers /\ ctx' = ctx /\ snap' = snap /\ found' = found
      BY <2>2 DEF vars, agentVars, listVars, rotVars, saveVars, fileVars
    <3>2. \A q \in Agents : \A f : Uses(q, f)' <=> Uses(q, f)
      BY <3>1, KeepsUses DEF SameUses
    <3>3. Recording(s)' <=> Recording(s)
      BY <3>1 DEF Recording
    <3> QED BY <2>1, <3>1, <3>2, <3>3, OtherOffer DEF OfferAt
  <2>3. ASSUME NEW p \in Agents,
               \/ Start(p) \/ Register(p) \/ StartFrom(p) \/ Turn(p) \/ Exit(p)
               \/ List(p) \/ Continue(p) \/ Scan(p) \/ Check(p) \/ TakeStamp(p) \/ LoadNumber(p)
        PROVE  OfferAt(s)'
    <3>1. misled' = misled
      BY <2>3 DEF Start, Register, StartFrom, Turn, Exit, List, Continue, Scan, Check, TakeStamp,
                  LoadNumber, Load, Save
    <3> QED BY <2>1, <2>3, <3>1, StartOffer, RegisterOffer, TurnOffer, ExitOffer, BrowsingOffer
  <2>4. CASE Select \/ MakeLink \/ Record \/ CleanUp \/ DreamEnds
    <3>1. misled' = misled
      BY <2>4 DEF Select, MakeLink, Record, CleanUp, DreamEnds
    <3> QED BY <2>1, <2>4, <3>1, SelectOffer, MakeLinkOffer, RecordsOffer
  <2>5. ASSUME NEW s0 \in Sessions, Move(s0) PROVE OfferAt(s)'
    <3>1. misled' = IF at[<<"log", s0>>].kind = "link" THEN misled \cup {s0} ELSE misled
      BY <2>5 DEF Move
    <3>2. s \notin misled /\ (s = s0 => ~LinkAt(s))
      BY <3>1 DEF LinkAt
    <3> QED BY <2>1, <2>5, <3>2, MoveOffer
  <2> QED BY <2>2, <2>3, <2>4, <2>5 DEF Next, Rotation
<1> QED BY <1>1, <1>2 DEF OfferInv

LEMMA OfferAlways == Spec => []OfferInv
<1>1. Init => OfferInv
  BY InitOffer
<1>2. OfferInv /\ [Next]_vars => OfferInv'
  BY OfferStep
<1> QED BY <1>1, <1>2, PTL DEF Spec

(* What was last saved under a session's name is offered to every agent,   *)
(* however many rotations have moved it and however old the copies of the  *)
(* registry are, the rotations included whose record was overwritten or    *)
(* never made; not so between the move and the link, once a rotation has   *)
(* moved the link itself, or when two agents have saved under that name    *)
(* (agent_context_utils.py, get_all_context_files;                         *)
(* agent_session_registry.py, _save).                                      *)
THEOREM SavesAreOffered == Spec => []LastSaveOffered
<1>1. OfferInv => LastSaveOffered
  <2> SUFFICES ASSUME OfferInv, NEW p \in Agents, NEW s \in Sessions,
                      Cardinality(writers[s]) <= 1, s \in Old \/ writers[s] # {},
                      ~Between(s), s \notin misled
               PROVE  \E f \in Offered(p) : f[2] = s /\ at[f].turns = saved[s]
    BY DEF LastSaveOffered
  <2> DEFINE log == <<"log", s>>
  <2>1. LastAt(s) /\ at[<<"arch", s>>].kind # "link" /\ log \in Files
    BY FileParts DEF OfferInv, OfferAt
  <2>2. at[log].kind \in {"link", "file"}
    <3>1. at[log].kind \in {"none", "link", "empty", "file"}
      BY <2>1 DEF OfferInv, Inv, TypeOK, FilesOK, FileStates
    <3>2. at[log].kind # "none"
      <4> SUFFICES ASSUME at[log].kind = "none" PROVE FALSE
        OBVIOUS
      <4>1. at[<<"arch", s>>].kind = "file"
        BY <2>1 DEF LastAt
      <4> QED BY <4>1 DEF Between
    <3> QED BY <2>1, <3>1, <3>2 DEF LastAt
  <2>3. /\ at[Resolve(log)].kind = "file" /\ at[Resolve(log)].turns = saved[s]
        /\ Resolve(log)[2] = s
    BY <2>1, <2>2 DEF LastAt, Resolve
  <2>4. Resolve(log) \in Offered(p)
    BY <2>3 DEF Offered, Readable
  <2> QED BY <2>3, <2>4
<1> QED BY <1>1, OfferAlways, PTL
=============================================================================
