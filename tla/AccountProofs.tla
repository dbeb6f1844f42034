--------------------------- MODULE AccountProofs ---------------------------
(***************************************************************************)
(* Proofs about the two components that answer for everything they are     *)
(* handed: the A2A server for each query, to the client that sent it, and  *)
(* the reconciliation for each row of its extracts.  The first part is for *)
(* any number of connections, handler slots and typed lines, the second    *)
(* for any extracts, headings, window and number of rows.                  *)
(***************************************************************************)
EXTENDS A2A, Reconcile, SequenceTheorems, FiniteSetTheorems, WellFoundedInduction, TLAPS

-----------------------------------------------------------------------------
(* The dictionary and the queue                                            *)

LEMMA EmptyMap == /\ DOMAIN (<<>>) = {}
                  /\ <<>> \in [{} -> Response]
OBVIOUS

LEMMA PutTypes ==
  ASSUME TypeOK, NEW c \in Conns, NEW r \in Response
  PROVE  LET map == Put(responses, IdOf[c], r)
         IN  DOMAIN map \subseteq Ids /\ map \in [DOMAIN map -> Response]
<1>1. IdOf[c] \in Ids
  BY DEF Ids
<1> QED BY <1>1 DEF TypeOK, Put

LEMMA AppendFacts ==
  ASSUME NEW S, NEW s \in Seq(S), NEW x \in S
  PROVE  /\ Append(s, x) \in Seq(S)
         /\ Len(Append(s, x)) = Len(s) + 1
         /\ \A i \in 1..Len(s) : Append(s, x)[i] = s[i]
         /\ Append(s, x)[Len(s) + 1] = x
OBVIOUS

LEMMA TailFacts ==
  ASSUME NEW S, NEW s \in Seq(S), s # <<>>
  PROVE  /\ Head(s) \in S /\ Head(s) = s[1]
         /\ Len(s) \in Nat /\ Len(s) >= 1
         /\ Tail(s) \in Seq(S)
         /\ Len(Tail(s)) = Len(s) - 1
         /\ \A i \in 1..Len(s) - 1 : Tail(s)[i] = s[i + 1]
OBVIOUS

-----------------------------------------------------------------------------
(* Type correctness                                                        *)

LEMMA CloseTypes ==
  ASSUME NEW c \in Conns, TypeOK, Close(c)
  PROVE  /\ thread' \in [Conns -> {"none", "recv", "poll", "pop", "done"}]
         /\ client' \in [Conns -> {"away", "waiting", "told", "cut", "left"}]
BY DEF TypeOK, Close

LEMMA TypesKept ==
  ASSUME TypeOK, [Next]_vars
  PROVE  TypeOK'
<1> USE ServerAssumption
<1>1. ASSUME NEW c \in Conns, Leave(c)
      PROVE  TypeOK'
  BY <1>1 DEF TypeOK, Leave, mainVars
<1>2. ASSUME NEW c \in Conns, NEW allowed \in BOOLEAN, Accept(c, allowed)
      PROVE  TypeOK'
  BY <1>2 DEF TypeOK, Accept, mainVars
<1>3. ASSUME NEW c \in Conns, ServeAtOnce(c)
      PROVE  TypeOK'
  BY <1>3, CloseTypes DEF TypeOK, ServeAtOnce, mainVars
<1>4. ASSUME NEW c \in Conns, NEW blank \in BOOLEAN, Enqueue(c, blank)
      PROVE  TypeOK'
  <2>1. [about |-> c, blank |-> blank] \in Message
    BY DEF Message
  <2>2. inbox' \in Seq(Message)
    <3>1. inbox \in Seq(Message)
      BY DEF TypeOK
    <3>2. Append(inbox, [about |-> c, blank |-> blank]) \in Seq(Message)
      BY <2>1, <3>1, AppendFacts
    <3> QED BY <1>4, <3>1, <3>2 DEF Enqueue
  <2>3. /\ thread' \in [Conns -> {"none", "recv", "poll", "pop", "done"}]
        /\ client' \in [Conns -> {"away", "waiting", "told", "cut", "left"}]
    BY <1>4, CloseTypes DEF TypeOK, Enqueue
  <2>4. fate' \in [Conns -> {"new", "queued", "worked"}]
    BY <1>4 DEF TypeOK, Enqueue
  <2>5. UNCHANGED <<main, job, responses, got, dropped, typed>>
    BY <1>4 DEF Enqueue, mainVars
  <2> QED BY <2>2, <2>3, <2>4, <2>5 DEF TypeOK
<1>5. ASSUME NEW c \in Conns, Poll(c)
      PROVE  TypeOK'
  <2>1. /\ thread' \in [Conns -> {"none", "recv", "poll", "pop", "done"}]
        /\ client' \in [Conns -> {"away", "waiting", "told", "cut", "left"}]
    BY <1>5, CloseTypes DEF TypeOK, Poll
  <2> QED BY <1>5, <2>1 DEF TypeOK, Poll, mainVars
<1>6. ASSUME NEW c \in Conns, Pop(c)
      PROVE  TypeOK'
  <2>1. CASE IdOf[c] \notin DOMAIN responses
    BY <1>6, <2>1, CloseTypes DEF TypeOK, Pop, mainVars
  <2>2. CASE IdOf[c] \in DOMAIN responses
    <3>1. /\ DOMAIN responses' \subseteq Ids
          /\ responses' \in [DOMAIN responses' -> Response]
      <4>1. responses' = [k \in DOMAIN responses \ {IdOf[c]} |-> responses[k]]
        BY <1>6, <2>2 DEF Pop, Without
      <4> QED BY <4>1 DEF TypeOK
    <3>2. responses[IdOf[c]] \in Response
      BY <2>2 DEF TypeOK
    <3>3. thread' \in [Conns -> {"none", "recv", "poll", "pop", "done"}]
      BY <1>6, <2>2 DEF TypeOK, Pop
    <3>4. /\ client' \in [Conns -> {"away", "waiting", "told", "cut", "left"}]
          /\ got' \in [Conns -> Response \cup {NoResponse}]
      BY <1>6, <2>2, <3>2 DEF TypeOK, Pop, clientVars
    <3>5. UNCHANGED <<main, job, inbox, fate, dropped, typed>>
      BY <1>6 DEF Pop, mainVars
    <3> QED BY <3>1, <3>3, <3>4, <3>5 DEF TypeOK
  <2> QED BY <2>1, <2>2
<1>7. CASE Type
  <2>1. [about |-> Terminal, blank |-> FALSE] \in Message
    BY DEF Message
  <2>2. inbox' \in Seq(Message)
    BY <1>7, <2>1, AppendFacts DEF TypeOK, Type
  <2> QED BY <1>7, <2>2 DEF TypeOK, Type, mainVars, clientVars
<1>8. CASE Take
  <2>1. Head(inbox) \in Message /\ inbox' \in Seq(Message)
    BY <1>8, TailFacts DEF TypeOK, Take
  <2>2. /\ Head(inbox).about \in Conns \cup {Terminal}
        /\ Head(inbox).blank => Head(inbox).about \in Conns
    BY <2>1 DEF Message
  <2>3. /\ main' \in {"idle", "work"} /\ job' \in Conns \cup {Terminal, None}
        /\ main' = "idle" => job' = None
        /\ main' = "work" => job' # None
        /\ dropped' \subseteq Conns
    BY <1>8, <2>2 DEF TypeOK, Take, mainVars
  <2>4. UNCHANGED <<responses, thread, client, got, fate, typed>>
    BY <1>8 DEF Take, clientVars
  <2> QED BY <2>1, <2>3, <2>4 DEF TypeOK
<1>9. CASE Return
  BY <1>9 DEF TypeOK, Return, clientVars
<1>10. CASE Raise
  <2>1. CASE job = Terminal
    BY <1>10, <2>1 DEF TypeOK, Raise, clientVars
  <2>2. CASE job # Terminal
    <3>1. job \in Conns
      BY <1>10, <2>2 DEF TypeOK, Raise
    <3>2. [about |-> job, type |-> "error"] \in Response
      BY <3>1 DEF Response
    <3>3. DOMAIN responses' \subseteq Ids /\ responses' \in [DOMAIN responses' -> Response]
      BY <1>10, <2>2, <3>1, <3>2, PutTypes DEF Raise
    <3> QED BY <1>10, <2>2, <3>1, <3>3 DEF TypeOK, Raise, clientVars
  <2> QED BY <2>1, <2>2
<1>11. CASE Store
  <2>1. CASE job = Terminal
    BY <1>11, <2>1 DEF TypeOK, Store, clientVars
  <2>2. CASE job # Terminal
    <3>1. job \in Conns
      BY <1>11, <2>2 DEF TypeOK, Store
    <3>2. [about |-> job, type |-> "response"] \in Response
      BY <3>1 DEF Response
    <3>3. DOMAIN responses' \subseteq Ids /\ responses' \in [DOMAIN responses' -> Response]
      BY <1>11, <2>2, <3>1, <3>2, PutTypes DEF Store, KeyOf
    <3> QED BY <1>11, <3>3 DEF TypeOK, Store, clientVars
  <2> QED BY <2>1, <2>2
<1>12. CASE Redirect
  BY <1>12, EmptyMap DEF TypeOK, Redirect, mainVars, clientVars, Response
<1>13. CASE Stop
  BY <1>13 DEF TypeOK, Stop, clientVars
<1>14. CASE Die
  BY <1>14 DEF TypeOK, Die
<1>15. CASE UNCHANGED vars
  BY <1>15 DEF TypeOK, vars, mainVars, clientVars
<1> QED BY <1>1, <1>2, <1>3, <1>4, <1>5, <1>6, <1>7, <1>8, <1>9, <1>10, <1>11, <1>12, <1>13,
           <1>14, <1>15 DEF Next, MainStep, HandlerStep

LEMMA TypesAtStart == Init => TypeOK
<1> SUFFICES ASSUME Init PROVE TypeOK
  OBVIOUS
<1>1. DOMAIN responses \subseteq Ids /\ responses \in [DOMAIN responses -> Response]
  BY EmptyMap DEF Init
<1>2. inbox \in Seq(Message)
  BY DEF Init
<1> QED BY <1>1, <1>2 DEF Init, TypeOK

\* Every reachable state is well typed: the dictionary holds responses under
\* ids, and the main thread has a job exactly while it works on one.
THEOREM TypeCorrect == Spec => []TypeOK
<1>1. Init => TypeOK
  BY TypesAtStart
<1>2. TypeOK /\ [Next]_vars => TypeOK'
  BY TypesKept
<1> QED BY <1>1, <1>2, PTL DEF Spec

-----------------------------------------------------------------------------
(* Whose response a client gets                                            *)

\* A response in the dictionary is about the query whose id is its key, and
\* what a client has been told was about its own.
Addressed ==
  /\ \A i \in DOMAIN responses : IdOf[responses[i].about] = i
  /\ OwnResponse

LEMMA PutAddressed ==
  ASSUME NEW map, NEW c, NEW type, \A i \in DOMAIN map : IdOf[map[i].about] = i
  PROVE  LET new == Put(map, IdOf[c], [about |-> c, type |-> type])
         IN  \A i \in DOMAIN new : IdOf[new[i].about] = i
<1> DEFINE r == [about |-> c, type |-> type]
<1>1. r.about = c
  OBVIOUS
<1> HIDE DEF r
<1>2. \A i \in DOMAIN Put(map, IdOf[c], r) : IdOf[Put(map, IdOf[c], r)[i].about] = i
  BY <1>1 DEF Put
<1> QED BY <1>2 DEF r

LEMMA AddressedKept ==
  ASSUME UniqueIds, TypeOK, Addressed, [Next]_vars
  PROVE  Addressed'
<1> USE ServerAssumption
<1>1. ASSUME NEW c \in Conns, Pop(c)
      PROVE  Addressed'
  <2>1. CASE IdOf[c] \notin DOMAIN responses
    BY <1>1, <2>1 DEF Addressed, OwnResponse, Pop
  <2>2. CASE IdOf[c] \in DOMAIN responses
    <3>1. responses' = [k \in DOMAIN responses \ {IdOf[c]} |-> responses[k]]
      BY <1>1, <2>2 DEF Pop, Without
    <3>2. responses[IdOf[c]].about \in Conns
      BY <2>2 DEF TypeOK, Response
    <3>3. responses[IdOf[c]].about = c
      BY <2>2, <3>2 DEF Addressed, UniqueIds
    <3>4. got' \in {got, [got EXCEPT ![c] = responses[IdOf[c]]]}
      BY <1>1, <2>2 DEF Pop, clientVars
    <3>5. OwnResponse'
      BY <3>3, <3>4 DEF Addressed, OwnResponse, TypeOK
    <3> QED BY <3>1, <3>5 DEF Addressed
  <2> QED BY <2>1, <2>2
<1>2. CASE Raise
  <2>1. CASE job = Terminal
    BY <1>2, <2>1 DEF Raise, clientVars, Addressed, OwnResponse
  <2>2. CASE job # Terminal
    <3>1. responses' = Put(responses, IdOf[job], [about |-> job, type |-> "error"])
      BY <1>2, <2>2 DEF Raise
    <3>2. \A i \in DOMAIN responses' : IdOf[responses'[i].about] = i
      BY <3>1, PutAddressed DEF Addressed
    <3> QED BY <1>2, <3>2 DEF Raise, clientVars, Addressed, OwnResponse
  <2> QED BY <2>1, <2>2
<1>3. CASE Store
  <2>1. CASE job = Terminal
    BY <1>3, <2>1 DEF Store, clientVars, Addressed, OwnResponse
  <2>2. CASE job # Terminal
    <3>1. responses' = Put(responses, IdOf[job], [about |-> job, type |-> "response"])
      BY <1>3, <2>2 DEF Store, KeyOf
    <3>2. \A i \in DOMAIN responses' : IdOf[responses'[i].about] = i
      BY <3>1, PutAddressed DEF Addressed
    <3> QED BY <1>3, <3>2 DEF Store, clientVars, Addressed, OwnResponse
  <2> QED BY <2>1, <2>2
<1>4. CASE Redirect
  BY <1>4, EmptyMap DEF Redirect, clientVars, Addressed, OwnResponse
<1>5. ASSUME \/ Type \/ Take \/ Return \/ Stop \/ Die \/ UNCHANGED vars
             \/ \E c \in Conns : \/ Leave(c) \/ ServeAtOnce(c) \/ Poll(c)
                                 \/ \E b \in BOOLEAN : Enqueue(c, b) \/ Accept(c, b)
      PROVE  Addressed'
  <2>1. UNCHANGED <<responses, got>>
    BY <1>5 DEF Type, Take, Return, Stop, Die, Leave, ServeAtOnce, Poll, Enqueue,
                Accept, vars, clientVars
  <2> QED BY <2>1 DEF Addressed, OwnResponse
<1> QED BY <1>1, <1>2, <1>3, <1>4, <1>5 DEF Next, MainStep, HandlerStep

\* When ids are unique, a client is only ever told about its own query: not
\* about another one answered, cleared or left behind meanwhile.
THEOREM ResponsesAreOwn == ASSUME UniqueIds PROVE Spec => []OwnResponse
<1>1. Init => Addressed
  BY EmptyMap DEF Init, Addressed, OwnResponse
<1>2. TypeOK /\ Addressed /\ [Next]_vars => Addressed'
  BY AddressedKept
<1>3. Addressed => OwnResponse
  BY DEF Addressed
<1> QED BY <1>1, <1>2, <1>3, TypeCorrect, PTL DEF Spec

-----------------------------------------------------------------------------
(* Who waits, and for what                                                 *)

\* While queue, job and dictionary stay, so does what a client waits for.
LEMMA StillAwaited ==
  ASSUME NoVainPolling, UNCHANGED <<main, job, inbox, responses, dropped>>, NEW c \in Conns,
         \A d \in Conns : d # c => thread'[d] = thread[d],
         thread'[c] \in {"poll", "pop"} => thread[c] \in {"poll", "pop"}
  PROVE  NoVainPolling'
BY DEF NoVainPolling, Awaited, Running

LEMMA CloseThread ==
  ASSUME TypeOK, NEW c \in Conns, Close(c)
  PROVE  thread'[c] = "done" /\ \A d \in Conns : d # c => thread'[d] = thread[d]
BY DEF TypeOK, Close

LEMMA TakeAwaited ==
  ASSUME TypeOK, NoVainPolling, Take
  PROVE  NoVainPolling'
<1> SUFFICES ASSUME NEW c \in Conns, Running, thread[c] \in {"poll", "pop"}, c \notin dropped'
             PROVE  Awaited(c)'
  BY DEF NoVainPolling, Take, clientVars, Running
<1>1. Awaited(c) /\ c \notin dropped
  BY DEF NoVainPolling, Take
<1>2. inbox \in Seq(Message) /\ inbox # <<>> /\ inbox' = Tail(inbox) /\ job = None
  BY DEF TypeOK, Take
<1>3. /\ Head(inbox) = inbox[1] /\ Len(inbox') = Len(inbox) - 1 /\ Len(inbox) \in Nat
      /\ \A i \in 1..Len(inbox) - 1 : inbox'[i] = inbox[i + 1]
  BY <1>2, TailFacts
<1>4. CASE IdOf[c] \in DOMAIN responses
  BY <1>4 DEF Awaited, Take
<1>5. CASE \E i \in 1..Len(inbox) : inbox[i].about = c
  <2>1. PICK i \in 1..Len(inbox) : inbox[i].about = c
    BY <1>5
  <2>2. CASE i = 1
    BY <1>3, <2>1, <2>2 DEF Awaited, Take
  <2>3. CASE i # 1
    <3>1. i - 1 \in 1..Len(inbox') /\ inbox'[i - 1].about = c
      BY <1>3, <2>1, <2>3
    <3> QED BY <3>1 DEF Awaited
  <2> QED BY <2>2, <2>3
<1> QED BY <1>1, <1>2, <1>4, <1>5, ServerAssumption DEF Awaited

LEMMA AppendAwaited ==
  ASSUME TypeOK, NoVainPolling, NEW m \in Message, inbox' = Append(inbox, m),
         UNCHANGED <<main, job, responses, dropped>>,
         \A c \in Conns : thread'[c] = thread[c] \/ m.about = c
  PROVE  NoVainPolling'
<1>1. /\ Len(inbox) \in Nat /\ Len(inbox') = Len(inbox) + 1
      /\ \A i \in 1..Len(inbox) : inbox'[i] = inbox[i]
      /\ inbox'[Len(inbox) + 1] = m
  BY AppendFacts DEF TypeOK
<1> SUFFICES ASSUME NEW c \in Conns, Running, thread'[c] \in {"poll", "pop"}, c \notin dropped
             PROVE  Awaited(c)'
  BY DEF NoVainPolling, Running
<1>2. CASE m.about = c
  BY <1>1, <1>2 DEF Awaited
<1>3. CASE thread'[c] = thread[c]
  <2>1. Awaited(c)
    BY <1>3 DEF NoVainPolling
  <2>2. CASE \E i \in 1..Len(inbox) : inbox[i].about = c
    BY <1>1, <2>2 DEF Awaited
  <2> QED BY <2>1, <2>2 DEF Awaited
<1> QED BY <1>2, <1>3

LEMMA PopAwaited ==
  ASSUME UniqueIds, TypeOK, NoVainPolling, NEW c \in Conns, Pop(c)
  PROVE  NoVainPolling'
<1>1. CASE IdOf[c] \notin DOMAIN responses
  BY <1>1, CloseThread, StillAwaited DEF Pop, mainVars
<1>2. CASE IdOf[c] \in DOMAIN responses
  <2>1. /\ DOMAIN responses' = DOMAIN responses \ {IdOf[c]}
        /\ thread'[c] = "done" /\ \A d \in Conns : d # c => thread'[d] = thread[d]
        /\ UNCHANGED <<main, job, inbox, dropped>>
    <3>1. responses' = [k \in DOMAIN responses \ {IdOf[c]} |-> responses[k]]
      BY <1>2 DEF Pop, Without
    <3>2. thread' = [thread EXCEPT ![c] = "done"]
      BY <1>2 DEF Pop
    <3> QED BY <3>1, <3>2 DEF Pop, TypeOK, mainVars
  <2> SUFFICES ASSUME NEW d \in Conns, Running, thread'[d] \in {"poll", "pop"}, d \notin dropped
               PROVE  Awaited(d)'
    BY <2>1 DEF NoVainPolling, Running
  <2>2. d # c /\ thread[d] \in {"poll", "pop"}
    BY <2>1
  <2>3. Awaited(d) /\ IdOf[d] # IdOf[c]
    BY <2>2 DEF NoVainPolling, UniqueIds
  <2> QED BY <2>1, <2>3 DEF Awaited
<1> QED BY <1>1, <1>2

\* A redirect takes away the responses it records as dropped, and no more.
LEMMA RedirectAwaited ==
  ASSUME UniqueIds, TypeOK, Addressed, NoVainPolling, Redirect
  PROVE  NoVainPolling'
<1> SUFFICES ASSUME NEW c \in Conns, Running, thread[c] \in {"poll", "pop"}, c \notin dropped'
             PROVE  Awaited(c)'
  BY DEF NoVainPolling, Redirect, clientVars, mainVars, Running
<1>1. Awaited(c) /\ c \notin dropped
  BY DEF NoVainPolling, Redirect
<1>2. IdOf[c] \notin DOMAIN responses
  <2> SUFFICES ASSUME IdOf[c] \in DOMAIN responses PROVE FALSE
    OBVIOUS
  <2>1. responses[IdOf[c]].about \in Conns
    BY DEF TypeOK, Response
  <2>2. responses[IdOf[c]].about = c
    BY <2>1 DEF Addressed, UniqueIds
  <2> QED BY <2>2 DEF Redirect
<1> QED BY <1>1, <1>2 DEF Awaited, Redirect, mainVars

LEMMA AwaitedKept ==
  ASSUME UniqueIds, TypeOK, Addressed, NoVainPolling, [Next]_vars
  PROVE  NoVainPolling'
<1> USE ServerAssumption
<1>1. ASSUME NEW c \in Conns, NEW blank \in BOOLEAN, Enqueue(c, blank)
      PROVE  NoVainPolling'
  <2>1. CASE Running /\ client[c] # "left"
    <3>1. /\ [about |-> c, blank |-> blank] \in Message
          /\ [about |-> c, blank |-> blank].about = c
      BY DEF Message
    <3>2. /\ inbox' = Append(inbox, [about |-> c, blank |-> blank])
          /\ UNCHANGED <<main, job, responses, dropped>>
          /\ \A d \in Conns : d # c => thread'[d] = thread[d]
      BY <1>1, <2>1 DEF Enqueue, mainVars, TypeOK
    <3> QED BY <3>1, <3>2, AppendAwaited
  <2>2. CASE ~(Running /\ client[c] # "left")
    BY <1>1, <2>2, CloseThread, StillAwaited DEF Enqueue, mainVars
  <2> QED BY <2>1, <2>2
<1>2. CASE Type
  <2>1. [about |-> Terminal, blank |-> FALSE] \in Message
    BY DEF Message
  <2> QED BY <1>2, <2>1, AppendAwaited DEF Type, mainVars, clientVars
<1>3. ASSUME NEW c \in Conns, Poll(c)
      PROVE  NoVainPolling'
  <2>1. CASE Close(c)
    BY <1>3, <2>1, CloseThread, StillAwaited DEF Poll, mainVars
  <2>2. CASE thread' = [thread EXCEPT ![c] = "pop"]
    BY <1>3, <2>2, StillAwaited DEF Poll, mainVars, TypeOK
  <2> QED BY <1>3, <2>1, <2>2 DEF Poll
<1>4. ASSUME NEW c \in Conns, ServeAtOnce(c)
      PROVE  NoVainPolling'
  BY <1>4, CloseThread, StillAwaited DEF ServeAtOnce, mainVars
<1>5. ASSUME NEW c \in Conns, NEW allowed \in BOOLEAN, Accept(c, allowed)
      PROVE  NoVainPolling'
  BY <1>5, StillAwaited DEF Accept, mainVars, TypeOK
<1>6. CASE Return
  BY <1>6 DEF Return, clientVars, NoVainPolling, Awaited, Running
<1>7. CASE Raise \/ Store
  <2>1. /\ DOMAIN responses \subseteq DOMAIN responses'
        /\ \A c \in Conns : job = c => job' = c \/ IdOf[c] \in DOMAIN responses'
        /\ UNCHANGED <<inbox, thread, dropped>>
    <3>1. CASE responses' = responses /\ job = Terminal
      BY <1>7, <3>1 DEF Raise, Store, clientVars
    <3>2. CASE \E r \in Response : responses' = Put(responses, IdOf[job], r)
      <4>1. DOMAIN responses' = DOMAIN responses \cup {IdOf[job]}
        BY <3>2 DEF Put
      <4> QED BY <1>7, <4>1 DEF Raise, Store, clientVars
    <3>3. CASE job # Terminal
      <4>1. job \in Conns
        BY <1>7, <3>3 DEF TypeOK, Raise, Store
      <4>2. \A type \in {"response", "error"} : [about |-> job, type |-> type] \in Response
        BY <4>1 DEF Response
      <4> QED BY <1>7, <3>2, <3>3, <4>2 DEF Raise, Store, KeyOf
    <3> QED BY <1>7, <3>1, <3>3 DEF Raise, Store
  <2>2. Running
    BY <1>7 DEF Raise, Store, Running
  <2> QED BY <2>1, <2>2 DEF NoVainPolling, Awaited
<1>8. CASE Stop \/ Die
  BY <1>8 DEF Stop, Die, NoVainPolling, Running
<1>9. ASSUME NEW c \in Conns, Leave(c)
      PROVE  NoVainPolling'
  BY <1>9 DEF Leave, mainVars, NoVainPolling, Awaited, Running
<1>10. CASE UNCHANGED vars
  BY <1>10 DEF vars, mainVars, NoVainPolling, Awaited, Running
<1> QED BY <1>1, <1>2, <1>3, <1>4, <1>5, <1>6, <1>7, <1>8, <1>9, <1>10, TakeAwaited, PopAwaited,
           RedirectAwaited DEF Next, MainStep, HandlerStep

\* When ids are unique, a handler that polls waits for something: the only
\* queries never answered by a server that goes on are the blank ones and
\* those whose response a redirect cleared.
THEOREM NobodyPollsInVain == ASSUME UniqueIds PROVE Spec => []NoVainPolling
<1>1. Init => Addressed /\ NoVainPolling
  BY EmptyMap DEF Init, Addressed, OwnResponse, NoVainPolling
<1>2. TypeOK /\ Addressed /\ NoVainPolling /\ [Next]_vars => Addressed' /\ NoVainPolling'
  BY AddressedKept, AwaitedKept
<1> QED BY <1>1, <1>2, TypeCorrect, PTL DEF Spec

-----------------------------------------------------------------------------
(* The contract with the callers                                           *)

\* How far each query has come, told from where it is: one that waits or is
\* worked on has been queued, once, and one that is answered was worked on.
Staged ==
  /\ \A c \in Conns : client[c] = "away" => thread[c] = "none"
  /\ \A c \in Conns : thread[c] \in {"none", "recv"} => fate[c] = "new"
  /\ \A c \in Conns : got[c] # NoResponse => fate[c] = "worked" /\ thread[c] = "done"
  /\ \A i \in DOMAIN responses : fate[responses[i].about] = "worked"
  /\ \A i \in 1..Len(inbox) :
       inbox[i].about # Terminal =>
         /\ fate[inbox[i].about] = "queued"
         /\ \A j \in 1..Len(inbox) : inbox[j].about = inbox[i].about => j = i
  /\ main = "work" /\ job # Terminal =>
       /\ fate[job] = "queued"
       /\ \A i \in 1..Len(inbox) : inbox[i].about # job
  /\ main = "store" /\ job # Terminal => fate[job] = "worked"

LEMMA StagedAtStart == Init => Staged
<1> SUFFICES ASSUME Init PROVE Staged
  OBVIOUS
<1>1. DOMAIN responses = {} /\ Len(inbox) = 0
  BY EmptyMap DEF Init
<1> QED BY <1>1 DEF Init, Staged

\* A handler that closes, whatever the reason, leaves the queries as they are.
LEMMA StagedAfterClose ==
  ASSUME NEW c \in Conns, TypeOK, Staged, thread[c] # "none", Close(c),
         UNCHANGED <<mainVars, inbox, responses, got, fate>>
  PROVE  Staged'
<1>1. /\ thread'[c] = "done" /\ \A d \in Conns : d # c => thread'[d] = thread[d]
      /\ client[c] # "away"
  BY DEF Close, TypeOK, Staged
<1>2. /\ client'[c] # "away" /\ \A d \in Conns : d # c => client'[d] = client[d]
  BY <1>1 DEF Close, TypeOK
<1> QED BY <1>1, <1>2 DEF Staged, mainVars

LEMMA StagedKept ==
  ASSUME UniqueIds, TypeOK, Addressed, Staged, [Next]_vars
  PROVE  Staged'
<1> USE ServerAssumption
<1>1. ASSUME NEW c \in Conns, Enqueue(c, TRUE) \/ Enqueue(c, FALSE)
      PROVE  Staged'
  <2>1. CASE Running /\ client[c] # "left"
    <3>1. PICK blank \in BOOLEAN : Enqueue(c, blank)
      BY <1>1
    <3>2. [about |-> c, blank |-> blank] \in Message
      BY DEF Message
    <3>3. /\ Len(inbox) \in Nat /\ Len(inbox') = Len(inbox) + 1
          /\ \A i \in 1..Len(inbox) : inbox'[i] = inbox[i]
          /\ inbox'[Len(inbox) + 1].about = c
      BY <2>1, <3>1, <3>2, AppendFacts DEF TypeOK, Enqueue
    <3>4. /\ fate[c] = "new" /\ fate'[c] = "queued"
          /\ \A d \in Conns : d # c => fate'[d] = fate[d]
          /\ thread'[c] = "poll"
          /\ \A d \in Conns : d # c => thread'[d] = thread[d]
          /\ UNCHANGED <<main, job, responses, client, got>>
      BY <2>1, <3>1 DEF TypeOK, Enqueue, Staged, mainVars
    <3>5. \A i \in 1..Len(inbox) : inbox[i].about # c /\ inbox[i].about \in Conns \cup {Terminal}
      <4>1. \A i \in 1..Len(inbox) : inbox[i].about \in Conns \cup {Terminal}
        <5>1. \A i \in 1..Len(inbox) : inbox[i] \in Message
          BY DEF TypeOK
        <5> QED BY <5>1 DEF Message
      <4>2. \A i \in 1..Len(inbox) : inbox[i].about # Terminal => fate[inbox[i].about] = "queued"
        BY DEF Staged
      <4>3. fate[c] # "queued"
        BY <3>4
      <4> QED BY <4>1, <4>2, <4>3
    <3>6. \A i \in 1..Len(inbox') :
            inbox'[i].about # Terminal =>
              /\ fate'[inbox'[i].about] = "queued"
              /\ \A j \in 1..Len(inbox') : inbox'[j].about = inbox'[i].about => j = i
      BY <3>3, <3>4, <3>5 DEF Staged
    <3>7. /\ main = "work" /\ job # Terminal => job # c
          /\ main = "store" /\ job # Terminal => job # c
          /\ main \in {"work", "store"} /\ job # Terminal => job \in Conns
          /\ \A i \in DOMAIN responses : responses[i].about \in Conns /\ responses[i].about # c
      BY <3>4 DEF Staged, TypeOK, Response
    <3>8. main' = "work" /\ job' # Terminal =>
            fate'[job'] = "queued" /\ \A i \in 1..Len(inbox') : inbox'[i].about # job'
      BY <3>3, <3>4, <3>7 DEF Staged
    <3>9. client[c] # "away"
      BY <3>1 DEF Staged, Enqueue
    <3>10. \A d \in Conns : got'[d] # NoResponse => fate'[d] = "worked" /\ thread'[d] = "done"
      BY <3>1, <3>4 DEF Staged, Enqueue
    <3> QED BY <3>4, <3>6, <3>7, <3>8, <3>9, <3>10 DEF Staged
  <2>2. CASE ~(Running /\ client[c] # "left")
    BY <1>1, <2>2, StagedAfterClose DEF Enqueue
  <2> QED BY <2>1, <2>2
<1>2. CASE Type
  <2>1. [about |-> Terminal, blank |-> FALSE] \in Message
    BY DEF Message
  <2>2. /\ Len(inbox) \in Nat /\ Len(inbox') = Len(inbox) + 1
        /\ \A i \in 1..Len(inbox) : inbox'[i] = inbox[i]
        /\ inbox'[Len(inbox) + 1].about = Terminal
    BY <1>2, <2>1, AppendFacts DEF TypeOK, Type
  <2>3. \A i \in 1..Len(inbox') :
          inbox'[i].about # Terminal =>
            /\ fate[inbox'[i].about] = "queued"
            /\ \A j \in 1..Len(inbox') : inbox'[j].about = inbox'[i].about => j = i
    BY <2>2 DEF Staged
  <2>4. main = "work" /\ job # Terminal => \A i \in 1..Len(inbox') : inbox'[i].about # job
    BY <2>2 DEF Staged
  <2> QED BY <1>2, <2>3, <2>4 DEF Type, mainVars, clientVars, Staged
<1>3. CASE Take
  <2>1. /\ inbox \in Seq(Message) /\ inbox # <<>> /\ inbox' = Tail(inbox)
        /\ UNCHANGED <<responses, thread, client, got, fate>>
    BY <1>3 DEF TypeOK, Take, clientVars
  <2>2. /\ Head(inbox) = inbox[1] /\ Len(inbox') = Len(inbox) - 1
        /\ Len(inbox) \in Nat /\ Len(inbox) >= 1
        /\ \A i \in 1..Len(inbox) - 1 : inbox'[i] = inbox[i + 1]
    BY <2>1, TailFacts
  <2>3. \A i \in 1..Len(inbox') :
          inbox'[i].about # Terminal =>
            /\ fate[inbox'[i].about] = "queued"
            /\ inbox'[i].about # inbox[1].about
            /\ \A j \in 1..Len(inbox') : inbox'[j].about = inbox'[i].about => j = i
    <3> SUFFICES ASSUME NEW i \in 1..Len(inbox'), inbox'[i].about # Terminal,
                        NEW j \in 1..Len(inbox')
                 PROVE  /\ fate[inbox'[i].about] = "queued"
                        /\ inbox'[i].about # inbox[1].about
                        /\ inbox'[j].about = inbox'[i].about => j = i
      OBVIOUS
    <3>1. /\ i + 1 \in 1..Len(inbox) /\ j + 1 \in 1..Len(inbox) /\ 1 \in 1..Len(inbox)
          /\ inbox'[i] = inbox[i + 1] /\ inbox'[j] = inbox[j + 1]
          /\ i + 1 # 1
      BY <2>2
    <3> QED BY <3>1 DEF Staged
  <2>4. inbox[1].about # Terminal => fate[inbox[1].about] = "queued"
    BY <2>2 DEF Staged
  <2>5. main' \in {"idle", "work"} /\ (main' = "work" => job' = inbox[1].about)
    BY <1>3, <2>2 DEF Take, mainVars
  <2> QED BY <2>1, <2>3, <2>4, <2>5 DEF Staged
<1>4. ASSUME NEW c \in Conns, Pop(c)
      PROVE  Staged'
  <2>1. CASE IdOf[c] \notin DOMAIN responses
    BY <1>4, <2>1, StagedAfterClose DEF Pop
  <2>2. CASE IdOf[c] \in DOMAIN responses
    <3>1. responses' = [k \in DOMAIN responses \ {IdOf[c]} |-> responses[k]]
      BY <1>4, <2>2 DEF Pop, Without
    <3>2. responses[IdOf[c]].about = c
      BY <2>2 DEF TypeOK, Response, Addressed, UniqueIds
    <3>3. fate[c] = "worked"
      BY <2>2, <3>2 DEF Staged
    <3>4. /\ thread'[c] = "done" /\ \A d \in Conns : d # c => thread'[d] = thread[d]
          /\ \A d \in Conns : d # c => got'[d] = got[d]
          /\ \A d \in Conns : client'[d] = "away" => client[d] = "away"
          /\ client[c] # "away"
          /\ UNCHANGED <<main, job, inbox, fate>>
      BY <1>4, <2>2 DEF Pop, mainVars, clientVars, Staged, TypeOK
    <3>5. client'[c] # "away"
      BY <3>4
    <3> QED BY <3>1, <3>3, <3>4, <3>5 DEF Staged
  <2> QED BY <2>1, <2>2
<1>5. CASE Return
  BY <1>5 DEF Return, clientVars, Staged, TypeOK
<1>6. CASE Raise
  <2>1. CASE job = Terminal
    BY <1>6, <2>1 DEF Raise, clientVars, Staged, TypeOK
  <2>2. CASE job # Terminal
    <3>1. job \in Conns /\ main = "work" /\ main' = "store"
      BY <1>6, <2>2 DEF TypeOK, Raise
    <3>2. /\ fate'[job] = "worked"
          /\ \A d \in Conns : d # job => fate'[d] = fate[d]
          /\ fate[job] = "queued" /\ \A i \in 1..Len(inbox) : inbox[i].about # job
          /\ UNCHANGED <<job, inbox, thread, client, got>>
      BY <1>6, <2>2, <3>1 DEF Raise, clientVars, Staged, TypeOK
    <3>3. \A i \in DOMAIN responses' : responses'[i].about \in Conns /\ fate'[responses'[i].about] = "worked"
      <4>1. responses' = Put(responses, IdOf[job], [about |-> job, type |-> "error"])
        BY <1>6, <2>2 DEF Raise
      <4>2. \A i \in DOMAIN responses : responses[i].about \in Conns
        BY DEF TypeOK, Response
      <4> QED BY <3>1, <3>2, <4>1, <4>2 DEF Put, Staged
    <3>4. \A i \in 1..Len(inbox) : inbox[i].about \in Conns \cup {Terminal}
      <4>1. \A i \in 1..Len(inbox) : inbox[i] \in Message
        BY DEF TypeOK
      <4> QED BY <4>1 DEF Message
    <3> QED BY <3>1, <3>2, <3>3, <3>4 DEF Staged
  <2> QED BY <2>1, <2>2
<1>7. CASE Store
  <2>1. \A i \in DOMAIN responses' : fate[responses'[i].about] = "worked"
    <3>1. CASE job = Terminal
      BY <1>7, <3>1 DEF Store, Staged
    <3>2. CASE job # Terminal
      <4>1. responses' = Put(responses, IdOf[job], [about |-> job, type |-> "response"])
        BY <1>7, <3>2 DEF Store, KeyOf
      <4>2. fate[job] = "worked"
        BY <1>7, <3>2 DEF Store, Staged
      <4> QED BY <4>1, <4>2 DEF Put, Staged
    <3> QED BY <3>1, <3>2
  <2> QED BY <1>7, <2>1 DEF Store, clientVars, Staged
<1>8. CASE Redirect
  BY <1>8, EmptyMap DEF Redirect, mainVars, clientVars, Staged
<1>9. CASE Stop
  BY <1>9 DEF Stop, clientVars, Staged
<1>10. CASE Die
  BY <1>10 DEF Die, Staged
<1>11. ASSUME NEW c \in Conns, Poll(c) \/ ServeAtOnce(c)
       PROVE  Staged'
  <2>1. CASE Close(c)
    BY <1>11, <2>1, StagedAfterClose DEF Poll, ServeAtOnce
  <2>2. CASE ~Close(c)
    BY <1>11, <2>2 DEF Poll, ServeAtOnce, mainVars, Staged, TypeOK
  <2> QED BY <2>1, <2>2
<1>12. ASSUME NEW c \in Conns, NEW allowed \in BOOLEAN, Accept(c, allowed)
       PROVE  Staged'
  BY <1>12 DEF Accept, mainVars, Staged, TypeOK
<1>13. ASSUME NEW c \in Conns, Leave(c)
       PROVE  Staged'
  BY <1>13 DEF Leave, mainVars, Staged
<1>14. CASE UNCHANGED vars
  BY <1>14 DEF vars, mainVars, clientVars, Staged
<1> QED BY <1>1, <1>2, <1>3, <1>4, <1>5, <1>6, <1>7, <1>8, <1>9, <1>10, <1>11, <1>12, <1>13,
           <1>14 DEF Next, MainStep, HandlerStep

\* Whose messages wait: what the contract sees of the queue.
Abouts(s) == [i \in 1..Len(s) |-> s[i].about]
Stage == [c \in Conns |-> IF got[c] # NoResponse THEN "told" ELSE fate[c]]

LEMMA AboutsType ==
  ASSUME NEW s \in Seq(Message)
  PROVE  Abouts(s) \in Seq(Conns \cup {Terminal}) /\ Len(Abouts(s)) = Len(s)
<1>1. \A i \in 1..Len(s) : s[i].about \in Conns \cup {Terminal}
  <2>1. \A i \in 1..Len(s) : s[i] \in Message
    OBVIOUS
  <2> QED BY <2>1 DEF Message
<1> QED BY <1>1 DEF Abouts

LEMMA AboutsAppend ==
  ASSUME NEW s \in Seq(Message), NEW m \in Message
  PROVE  Abouts(Append(s, m)) = Append(Abouts(s), m.about)
<1>1. m.about \in Conns \cup {Terminal}
  BY DEF Message
<1>2. Abouts(s) \in Seq(Conns \cup {Terminal}) /\ Len(Abouts(s)) = Len(s)
  BY AboutsType
<1>3. Append(s, m) \in Seq(Message) /\ Len(Append(s, m)) = Len(s) + 1
  OBVIOUS
<1>4. /\ Abouts(Append(s, m)) \in Seq(Conns \cup {Terminal})
      /\ Len(Abouts(Append(s, m))) = Len(s) + 1
  BY <1>3, AboutsType
<1>5. /\ Append(Abouts(s), m.about) \in Seq(Conns \cup {Terminal})
      /\ Len(Append(Abouts(s), m.about)) = Len(s) + 1
  BY <1>1, <1>2
<1>6. \A i \in 1..Len(s) + 1 : Abouts(Append(s, m))[i] = Append(Abouts(s), m.about)[i]
  BY <1>1, <1>2, <1>3 DEF Abouts
<1> QED BY <1>4, <1>5, <1>6, SeqEqual

LEMMA AboutsTail ==
  ASSUME NEW s \in Seq(Message), s # <<>>
  PROVE  /\ Abouts(s) # <<>> /\ Head(Abouts(s)) = Head(s).about
         /\ Abouts(Tail(s)) = Tail(Abouts(s))
<1>1. Abouts(s) \in Seq(Conns \cup {Terminal}) /\ Len(Abouts(s)) = Len(s)
  BY AboutsType
<1>2. Abouts(s) # <<>> /\ Head(Abouts(s)) = Head(s).about
  BY <1>1 DEF Abouts
<1>3. Tail(s) \in Seq(Message) /\ Len(Tail(s)) = Len(s) - 1
  OBVIOUS
<1>4. /\ Abouts(Tail(s)) \in Seq(Conns \cup {Terminal})
      /\ Len(Abouts(Tail(s))) = Len(s) - 1
  BY <1>3, AboutsType
<1>5. /\ Tail(Abouts(s)) \in Seq(Conns \cup {Terminal})
      /\ Len(Tail(Abouts(s))) = Len(s) - 1
  BY <1>1, <1>2
<1>6. \A i \in 1..Len(s) - 1 : Abouts(Tail(s))[i] = Tail(Abouts(s))[i]
  BY <1>1, <1>2, <1>3 DEF Abouts
<1> QED BY <1>2, <1>4, <1>5, <1>6, SeqEqual

\* Every step of the server is one of the contract's or changes nothing there.
LEMMA ContractStep ==
  ASSUME UniqueIds, TypeOK, Addressed, Staged, [Next]_vars
  PROVE  [Contract!Next]_(Contract!vars)
<1> USE ServerAssumption
<1> DEFINE Quiet == UNCHANGED <<Abouts(inbox), job, Stage>>
<1>1. ASSUME NEW c \in Conns, NEW blank \in BOOLEAN, Enqueue(c, blank)
      PROVE  Contract!Ask(c) \/ Quiet
  <2>1. CASE Running /\ client[c] # "left"
    <3>1. [about |-> c, blank |-> blank] \in Message
      BY DEF Message
    <3>2. Abouts(inbox') = Append(Abouts(inbox), c)
      <4> DEFINE m == [about |-> c, blank |-> blank]
      <4>1. m.about = c /\ inbox' = Append(inbox, m) /\ inbox \in Seq(Message)
        BY <1>1, <2>1 DEF Enqueue, TypeOK
      <4>2. m \in Message
        BY <3>1
      <4> HIDE DEF m
      <4> QED BY <4>1, <4>2, AboutsAppend
    <3>3. fate[c] = "new" /\ got[c] = NoResponse
      BY <1>1 DEF Enqueue, Staged
    <3>4. got' = got /\ fate' = [fate EXCEPT ![c] = "queued"] /\ UNCHANGED job
      BY <1>1, <2>1 DEF Enqueue, mainVars
    <3>5. Stage[c] = "new" /\ Stage' = [Stage EXCEPT ![c] = "queued"]
      BY <3>3, <3>4 DEF Stage, TypeOK
    <3> QED BY <3>2, <3>4, <3>5 DEF Contract!Ask, Abouts, Stage
  <2>2. CASE ~(Running /\ client[c] # "left")
    BY <1>1, <2>2 DEF Enqueue, Stage, Abouts, mainVars
  <2> QED BY <2>1, <2>2
<1>2. CASE Type
  <2>1. [about |-> Terminal, blank |-> FALSE] \in Message
    BY DEF Message
  <2>2. Abouts(inbox') = Append(Abouts(inbox), Terminal)
    BY <1>2, <2>1, AboutsAppend DEF Type, TypeOK
  <2>3. UNCHANGED <<job, Stage>>
    BY <1>2 DEF Type, Stage, mainVars, clientVars
  <2>4. Contract!Type
    BY <2>2, <2>3 DEF Contract!Type, Abouts, Stage
  <2> QED BY <2>4 DEF Contract!Next
<1>3. CASE Take
  <2>1. job = None /\ inbox \in Seq(Message) /\ inbox # <<>> /\ inbox' = Tail(inbox)
    BY <1>3 DEF Take, TypeOK
  <2>2. /\ Abouts(inbox) # <<>> /\ Head(Abouts(inbox)) = Head(inbox).about
        /\ Abouts(inbox') = Tail(Abouts(inbox))
    BY <2>1, AboutsTail
  <2>3. job' \in {Head(inbox).about, None} /\ UNCHANGED Stage
    BY <1>3, <2>1 DEF Take, Stage, mainVars, clientVars
  <2>4. Contract!Begin
    BY <2>1, <2>2, <2>3 DEF Contract!Begin, Abouts, Stage
  <2> QED BY <2>4 DEF Contract!Next
<1>4. ASSUME NEW c \in Conns, Pop(c)
      PROVE  Contract!Tell(c) \/ Quiet
  <2>1. CASE IdOf[c] \in DOMAIN responses /\ client[c] = "waiting"
    <3>1. responses[IdOf[c]] \in Response /\ responses[IdOf[c]].about = c
      BY <2>1 DEF TypeOK, Addressed, UniqueIds, Response
    <3>2. fate[c] = "worked" /\ got[c] = NoResponse
      BY <1>4, <2>1, <3>1 DEF Staged, Pop
    <3>3. responses[IdOf[c]] # NoResponse
      BY <3>1 DEF Response, NoResponse
    <3>4. /\ Stage[c] = "worked" /\ Stage' = [Stage EXCEPT ![c] = "told"]
          /\ UNCHANGED <<job, inbox>>
      BY <1>4, <2>1, <3>2, <3>3 DEF Pop, Stage, TypeOK, mainVars
    <3> QED BY <3>4 DEF Contract!Tell, Abouts, Stage
  <2>2. CASE ~(IdOf[c] \in DOMAIN responses /\ client[c] = "waiting")
    BY <1>4, <2>2 DEF Pop, Stage, Abouts, mainVars, clientVars
  <2> QED BY <2>1, <2>2
<1>5. CASE Return \/ Raise
  <2>1. UNCHANGED <<Abouts(inbox), job, got>> /\ main = "work"
    BY <1>5 DEF Return, Raise, Abouts, clientVars
  <2>2. CASE job = Terminal
    BY <1>5, <2>1, <2>2 DEF Return, Raise, Stage, Contract!vars, Abouts
  <2>3. CASE job # Terminal
    <3>1. job \in Conns /\ fate[job] = "queued" /\ fate' = [fate EXCEPT ![job] = "worked"]
      BY <1>5, <2>1, <2>3 DEF Return, Raise, Staged, TypeOK
    <3>2. got[job] = NoResponse
      BY <3>1 DEF Staged
    <3>3. Stage[job] = "queued" /\ Stage' = [Stage EXCEPT ![job] = "worked"]
      BY <2>1, <3>1, <3>2 DEF Stage, TypeOK
    <3>4. Contract!Finish
      BY <2>1, <3>1, <3>3 DEF Contract!Finish, Abouts, Stage
    <3> QED BY <3>4 DEF Contract!Next
  <2> QED BY <2>2, <2>3
<1>6. CASE Store
  <2>1. job # None /\ job' = None /\ UNCHANGED <<Abouts(inbox), Stage>>
    BY <1>6 DEF Store, TypeOK, Abouts, Stage, clientVars
  <2>2. job \in Conns => Stage[job] # "queued"
    BY <1>6 DEF Store, Stage, Staged
  <2>3. Contract!Release
    BY <2>1, <2>2 DEF Contract!Release, Abouts, Stage
  <2> QED BY <2>3 DEF Contract!Next
<1>7. ASSUME NEW c \in Conns, NEW allowed \in BOOLEAN,
             ServeAtOnce(c) \/ Poll(c) \/ Leave(c) \/ Accept(c, allowed)
      PROVE  Quiet
  BY <1>7 DEF ServeAtOnce, Poll, Leave, Accept, mainVars, Abouts, Stage
<1>8. CASE Redirect \/ Stop \/ Die \/ UNCHANGED vars
  BY <1>8 DEF Redirect, Stop, Die, vars, mainVars, clientVars, Abouts, Stage, Contract!vars
<1>9. Quiet => UNCHANGED Contract!vars
  BY DEF Contract!vars, Abouts, Stage
<1> HIDE DEF Quiet
<1> QED BY <1>1, <1>2, <1>3, <1>4, <1>5, <1>6, <1>7, <1>8, <1>9
        DEF Next, MainStep, HandlerStep, Contract!Next

\* The server implements the contract (KeepsQueryContract): queries are worked
\* on one at a time in the order they came, once each, and a client is told
\* the outcome once and only when there is one, whatever the handler threads,
\* the redirects and the stop do.
THEOREM ContractSafety ==
  ASSUME UniqueIds PROVE Spec => Contract!Init /\ [][Contract!Next]_(Contract!vars)
<1>1. Init => Contract!Init
  <2> SUFFICES ASSUME Init PROVE Contract!Init
    OBVIOUS
  <2>1. inbox \in Seq(Message) /\ Len(inbox) = 0
    BY DEF Init
  <2>2. Abouts(inbox) = <<>>
    BY <2>1, AboutsType, EmptySeq
  <2>3. Stage = [c \in Conns |-> "new"]
    BY DEF Init, Stage
  <2>4. job = None
    BY DEF Init
  <2> QED BY <2>2, <2>3, <2>4 DEF Contract!Init, Abouts, Stage
<1>2. Init => Addressed
  BY EmptyMap DEF Init, Addressed, OwnResponse
<1>3. TypeOK /\ Addressed /\ [Next]_vars => Addressed'
  BY AddressedKept
<1>4. TypeOK /\ Addressed /\ Staged /\ [Next]_vars => Staged'
  BY StagedKept
<1>5. TypeOK /\ Addressed /\ Staged /\ [Next]_vars => [Contract!Next]_(Contract!vars)
  BY ContractStep
<1> QED BY <1>1, <1>2, <1>3, <1>4, <1>5, StagedAtStart, TypeCorrect, PTL DEF Spec

-----------------------------------------------------------------------------
(* Sums over finite sets                                                   *)

LEMMA LeastNumber ==
  ASSUME NEW S \in SUBSET Nat, S # {}
  PROVE  \E m \in S : \A k \in S : m <= k
<1> DEFINE Lt == {p \in Nat \X Nat : p[1] < p[2]}
<1>1. IsWellFoundedOn(Lt, Nat)
  BY NatLessThanWellFounded DEF OpToRel
<1>2. \A x, y \in Nat : <<y, x>> \in Lt <=> y < x
  OBVIOUS
<1> HIDE DEF Lt
<1>3. PICK x \in S : \A y \in S : ~ (<<y, x>> \in Lt)
  BY <1>1, WFMin
<1>4. x \in Nat /\ \A y \in S : y \in Nat /\ ~(y < x)
  BY <1>2, <1>3
<1> QED BY <1>3, <1>4

\* Among subsets of a finite set one is least, and so are those without one of
\* its elements not among them.
LEMMA LeastSet ==
  ASSUME NEW S, IsFiniteSet(S), NEW B \in SUBSET SUBSET S, B # {}
  PROVE  \E T \in B : \A x \in T : T \ {x} \notin B
<1> DEFINE Sizes == {n \in Nat : \E T \in B : Cardinality(T) = n}
<1>1. \A T \in B : IsFiniteSet(T) /\ Cardinality(T) \in Nat
  BY FS_Subset, FS_CardinalityType
<1>2. Sizes \in SUBSET Nat /\ Sizes # {}
  BY <1>1
<1>3. \A n \in Nat : n \in Sizes <=> \E T \in B : Cardinality(T) = n
  OBVIOUS
<1> HIDE DEF Sizes
<1>4. PICK m \in Sizes : \A k \in Sizes : m <= k
  BY <1>2, LeastNumber
<1>5. PICK T \in B : Cardinality(T) = m
  BY <1>2, <1>3, <1>4
<1>6. ASSUME NEW x \in T, T \ {x} \in B PROVE FALSE
  <2>1. Cardinality(T \ {x}) = m - 1 /\ Cardinality(T \ {x}) \in Nat
    BY <1>1, <1>5, <1>6, FS_RemoveElement
  <2>2. m - 1 \in Sizes
    BY <1>3, <1>6, <2>1
  <2> QED BY <1>2, <1>4, <2>2
<1> QED BY <1>5, <1>6

\* What holds of no elements, and of a set as soon as of the set without one of
\* its elements, holds of every finite set.
LEMMA SubsetInduction ==
  ASSUME NEW S, IsFiniteSet(S), NEW G, {} \in G,
         \A T \in SUBSET S : T # {} => \E x \in T : T \ {x} \in G => T \in G
  PROVE  S \in G
<1> DEFINE B == {T \in SUBSET S : T \notin G}
<1>1. \A T \in SUBSET S : T \in B <=> T \notin G
  OBVIOUS
<1>2. B \in SUBSET SUBSET S
  OBVIOUS
<1> HIDE DEF B
<1> SUFFICES ASSUME S \notin G PROVE FALSE
  OBVIOUS
<1>3. B # {}
  BY <1>1
<1>4. PICK T \in B : \A x \in T : T \ {x} \notin B
  BY <1>2, <1>3, LeastSet
<1>5. T \in SUBSET S /\ T \notin G /\ T # {}
  BY <1>1, <1>2, <1>4
<1>6. PICK x \in T : T \ {x} \in G => T \in G
  BY <1>5
<1>7. T \ {x} \in SUBSET S
  BY <1>5
<1> QED BY <1>1, <1>4, <1>5, <1>6, <1>7

Some(s) == CHOOSE x \in s : TRUE

LEMMA SomeIn == ASSUME NEW s, s # {} PROVE Some(s) \in s
BY DEF Some

IsSumming(g, f, within) ==
  g = [s \in within |-> IF s = {} THEN 0 ELSE f[Some(s)] + g[s \ {Some(s)}]]

Sized(S, n) == {s \in SUBSET S : Cardinality(s) <= n}

LEMMA SummingExists ==
  ASSUME NEW f, NEW S, IsFiniteSet(S)
  PROVE  \E g : IsSumming(g, f, SUBSET S)
<1> DEFINE Lacking == {n \in Nat : ~ \E g : IsSumming(g, f, Sized(S, n))}
<1>1. Lacking = {}
  <2> SUFFICES ASSUME Lacking # {} PROVE FALSE
    OBVIOUS
  <2>1. Lacking \in SUBSET Nat
        /\ \A n \in Nat : n \in Lacking <=> ~ \E g : IsSumming(g, f, Sized(S, n))
    OBVIOUS
  <2> HIDE DEF Lacking
  <2>2. PICK m \in Lacking : \A k \in Lacking : m <= k
    BY <2>1, LeastNumber
  <2>3. m \in Nat
    BY <2>1
  <2>4. CASE m = 0
    <3> DEFINE g == [s \in Sized(S, 0) |-> 0]
    <3>1. \A s \in Sized(S, 0) : s = {}
      <4> SUFFICES ASSUME NEW s \in Sized(S, 0) PROVE s = {}
        OBVIOUS
      <4>1. IsFiniteSet(s) /\ Cardinality(s) <= 0
        BY FS_Subset DEF Sized
      <4>2. Cardinality(s) = 0
        BY <4>1, FS_CardinalityType
      <4> QED BY <4>1, <4>2, FS_EmptySet
    <3>2. IsSumming(g, f, Sized(S, 0))
      BY <3>1 DEF IsSumming
    <3> QED BY <2>1, <2>4, <3>2
  <2>5. CASE m # 0
    <3>1. m - 1 \in Nat /\ ~(m <= m - 1)
      BY <2>3, <2>5
    <3>2. PICK h : IsSumming(h, f, Sized(S, m - 1))
      BY <2>1, <2>2, <3>1
    <3> DEFINE g == [s \in Sized(S, m) |->
                       IF s = {} THEN 0 ELSE f[Some(s)] + h[s \ {Some(s)}]]
    <3>3. \A s \in Sized(S, m) : s # {} => s \ {Some(s)} \in Sized(S, m - 1)
      <4> SUFFICES ASSUME NEW s \in Sized(S, m), s # {}
                   PROVE  s \ {Some(s)} \in Sized(S, m - 1)
        OBVIOUS
      <4>1. IsFiniteSet(s) /\ Cardinality(s) <= m /\ s \in SUBSET S
        BY FS_Subset DEF Sized
      <4>2. Cardinality(s \ {Some(s)}) = Cardinality(s) - 1
        BY <4>1, SomeIn, FS_RemoveElement
      <4>3. Cardinality(s) \in Nat
        BY <4>1, FS_CardinalityType
      <4>4. Cardinality(s \ {Some(s)}) <= m - 1
        BY <2>3, <4>1, <4>2, <4>3
      <4> QED BY <4>1, <4>4 DEF Sized
    <3>4. \A s \in Sized(S, m - 1) : s \in Sized(S, m)
      <4> SUFFICES ASSUME NEW s \in Sized(S, m - 1) PROVE s \in Sized(S, m)
        OBVIOUS
      <4>1. IsFiniteSet(s) /\ Cardinality(s) <= m - 1 /\ s \in SUBSET S
        BY FS_Subset DEF Sized
      <4>2. Cardinality(s) <= m
        BY <2>3, <4>1, FS_CardinalityType
      <4> QED BY <4>1, <4>2 DEF Sized
    <3>5. \A s \in Sized(S, m - 1) :
            h[s] = IF s = {} THEN 0 ELSE f[Some(s)] + h[s \ {Some(s)}]
      BY <3>2 DEF IsSumming
    <3>6. \A s \in Sized(S, m - 1) : g[s] = h[s]
      BY <3>4, <3>5, Zenon
    <3>7. \A s \in Sized(S, m) :
            g[s] = IF s = {} THEN 0 ELSE f[Some(s)] + g[s \ {Some(s)}]
      BY <3>3, <3>6
    <3>8. g = [s \in Sized(S, m) |-> g[s]]
      OBVIOUS
    <3> HIDE DEF g
    <3>9. IsSumming(g, f, Sized(S, m))
      BY <3>7, <3>8 DEF IsSumming
    <3> QED BY <2>1, <2>3, <3>9
  <2> QED BY <2>4, <2>5
<1>2. Sized(S, Cardinality(S)) = SUBSET S
  BY FS_Subset DEF Sized
<1>3. Cardinality(S) \in Nat
  BY FS_CardinalityType
<1>4. \E g : IsSumming(g, f, Sized(S, Cardinality(S)))
  BY <1>1, <1>3
<1> QED BY <1>2, <1>4

LEMMA SummingMade ==
  ASSUME NEW f, NEW S, IsFiniteSet(S)
  PROVE  \E g : IsSumming(g, f, SUBSET S) /\ SumFunctionOnSet(f, S) = g[S]
<1> DEFINE g == CHOOSE iter : IsSumming(iter, f, SUBSET S)
<1>1. IsSumming(g, f, SUBSET S)
  BY SummingExists
<1>2. SumFunctionOnSet(f, S) = g[S]
  BY DEF SumFunctionOnSet, FoldFunctionOnSet, MapThenFoldSet, IsSumming, Some
<1> QED BY <1>1, <1>2

LEMMA SumNone == ASSUME NEW f PROVE SumFunctionOnSet(f, {}) = 0
<1>1. PICK g : IsSumming(g, f, SUBSET {}) /\ SumFunctionOnSet(f, {}) = g[{}]
  BY SummingMade, FS_EmptySet
<1> QED BY <1>1 DEF IsSumming

LEMMA SumSome ==
  ASSUME NEW f, NEW S, IsFiniteSet(S), S # {}
  PROVE  SumFunctionOnSet(f, S) = f[Some(S)] + SumFunctionOnSet(f, S \ {Some(S)})
<1> DEFINE T == S \ {Some(S)}
<1>1. IsFiniteSet(T) /\ T \in SUBSET S
  BY FS_RemoveElement
<1>2. PICK g : IsSumming(g, f, SUBSET S) /\ SumFunctionOnSet(f, S) = g[S]
  BY SummingMade
<1>3. SumFunctionOnSet(f, S) = f[Some(S)] + g[T]
  BY <1>2 DEF IsSumming
<1> HIDE DEF T
<1>4. PICK h : IsSumming(h, f, SUBSET T) /\ SumFunctionOnSet(f, T) = h[T]
  BY <1>1, SummingMade
<1>5. \A s \in SUBSET T : /\ h[s] = IF s = {} THEN 0 ELSE f[Some(s)] + h[s \ {Some(s)}]
                          /\ g[s] = IF s = {} THEN 0 ELSE f[Some(s)] + g[s \ {Some(s)}]
  <2>1. \A s \in SUBSET T : h[s] = IF s = {} THEN 0 ELSE f[Some(s)] + h[s \ {Some(s)}]
    BY <1>4 DEF IsSumming
  <2>2. \A s \in SUBSET S : g[s] = IF s = {} THEN 0 ELSE f[Some(s)] + g[s \ {Some(s)}]
    BY <1>2 DEF IsSumming
  <2> QED BY <1>1, <2>1, <2>2
<1> DEFINE G == {s \in SUBSET T : g[s] = h[s]}
<1>6. {} \in G
  BY <1>5
<1>7. \A s \in SUBSET T : s # {} => \E x \in s : s \ {x} \in G => s \in G
  BY <1>5, SomeIn
<1> HIDE DEF G
<1>8. T \in G
  BY <1>1, <1>6, <1>7, SubsetInduction
<1>9. g[T] = h[T]
  BY <1>8 DEF G
<1> QED BY <1>3, <1>4, <1>9 DEF T

\* Which element is taken out first makes no difference.
Summable(f, S) == IsFiniteSet(S) /\ \A x \in S : f[x] \in Int

LEMMA SumType ==
  ASSUME NEW f, NEW S, Summable(f, S)
  PROVE  SumFunctionOnSet(f, S) \in Int
<1> DEFINE G == {T \in SUBSET S : SumFunctionOnSet(f, T) \in Int}
<1>1. {} \in G
  BY SumNone
<1>2. ASSUME NEW T \in SUBSET S, T # {}
      PROVE  \E x \in T : T \ {x} \in G => T \in G
  <2>1. IsFiniteSet(T) /\ Some(T) \in T /\ f[Some(T)] \in Int
    BY <1>2, SomeIn, FS_Subset DEF Summable
  <2>2. SumFunctionOnSet(f, T) = f[Some(T)] + SumFunctionOnSet(f, T \ {Some(T)})
    BY <1>2, <2>1, SumSome
  <2>3. T \ {Some(T)} \in G => SumFunctionOnSet(f, T) \in Int
    BY <2>1, <2>2
  <2> QED BY <2>1, <2>3
<1> HIDE DEF G
<1>3. S \in G
  BY <1>1, <1>2, SubsetInduction DEF Summable
<1> QED BY <1>3 DEF G

LEMMA SumTake ==
  ASSUME NEW f, NEW S, Summable(f, S), NEW a \in S
  PROVE  SumFunctionOnSet(f, S) = f[a] + SumFunctionOnSet(f, S \ {a})
<1> DEFINE Takes(T) == \A x \in T :
                SumFunctionOnSet(f, T) = f[x] + SumFunctionOnSet(f, T \ {x})
<1> HIDE DEF Takes
<1> DEFINE B == {T \in SUBSET S : ~Takes(T)}
<1>1. B \in SUBSET SUBSET S /\ \A T \in SUBSET S : T \in B <=> ~Takes(T)
  OBVIOUS
<1> HIDE DEF B
<1>2. B = {}
  <2> SUFFICES ASSUME B # {} PROVE FALSE
    OBVIOUS
  <2>1. PICK T \in B : \A x \in T : T \ {x} \notin B
    BY <1>1, LeastSet DEF Summable
  <2>2. T \in SUBSET S /\ ~Takes(T)
    BY <1>1, <2>1
  <2>3. \A x \in T : Takes(T \ {x})
    BY <1>1, <2>1, <2>2
  <2>4. PICK x \in T : SumFunctionOnSet(f, T) # f[x] + SumFunctionOnSet(f, T \ {x})
    BY <2>2 DEF Takes
  <2> DEFINE c == Some(T)
  <2>5. IsFiniteSet(T) /\ c \in T /\ f[c] \in Int /\ f[x] \in Int
    BY <2>2, <2>4, SomeIn, FS_Subset DEF Summable
  <2>6. SumFunctionOnSet(f, T) = f[c] + SumFunctionOnSet(f, T \ {c})
    BY <2>4, <2>5, SumSome
  <2> HIDE DEF c
  <2>7. x # c
    BY <2>4, <2>6
  <2> DEFINE U == (T \ {c}) \ {x}
  <2>8. U = (T \ {x}) \ {c} /\ x \in T \ {c} /\ c \in T \ {x}
    BY <2>4, <2>5, <2>7
  <2>9. Summable(f, U)
    BY <2>2, <2>5, FS_RemoveElement DEF Summable
  <2>10. SumFunctionOnSet(f, T \ {c}) = f[x] + SumFunctionOnSet(f, U)
    BY <2>3, <2>5, <2>8 DEF Takes
  <2>11. SumFunctionOnSet(f, T \ {x}) = f[c] + SumFunctionOnSet(f, U)
    BY <2>3, <2>4, <2>8 DEF Takes
  <2>12. SumFunctionOnSet(f, U) \in Int
    BY <2>9, SumType
  <2> HIDE DEF U
  <2> QED BY <2>4, <2>5, <2>6, <2>10, <2>11, <2>12
<1>3. Takes(S)
  BY <1>1, <1>2
<1> QED BY <1>3 DEF Takes

\* Elements that count for nothing can be left out.
LEMMA SumOver ==
  ASSUME NEW f, NEW g, NEW S, NEW T \in SUBSET S, Summable(f, T), Summable(g, S),
         \A x \in T : g[x] = f[x], \A x \in S \ T : g[x] = 0
  PROVE  SumFunctionOnSet(g, S) = SumFunctionOnSet(f, T)
<1> DEFINE G == {U \in SUBSET S :
                   SumFunctionOnSet(g, U) = SumFunctionOnSet(f, U \cap T)}
<1>1. {} \in G
  <2>1. {} \cap T = {}
    OBVIOUS
  <2> QED BY <2>1, SumNone
<1>2. ASSUME NEW U \in SUBSET S, U # {}
      PROVE  \E x \in U : U \ {x} \in G => U \in G
  <2>1. PICK x \in U : TRUE
    BY <1>2
  <2>2. Summable(g, U) /\ Summable(f, U \cap T)
    BY FS_Subset DEF Summable
  <2>3. SumFunctionOnSet(g, U) = g[x] + SumFunctionOnSet(g, U \ {x})
    BY <2>1, <2>2, SumTake
  <2>4. ASSUME U \ {x} \in G
        PROVE  SumFunctionOnSet(g, U) = SumFunctionOnSet(f, U \cap T)
    <3>1. SumFunctionOnSet(g, U \ {x}) = SumFunctionOnSet(f, (U \ {x}) \cap T)
      BY <2>4
    <3>2. CASE x \in T
      <4>1. x \in U \cap T /\ (U \cap T) \ {x} = (U \ {x}) \cap T
        BY <2>1, <3>2
      <4>2. SumFunctionOnSet(f, U \cap T)
              = f[x] + SumFunctionOnSet(f, (U \cap T) \ {x})
        BY <2>2, <4>1, SumTake
      <4> QED BY <2>3, <3>1, <3>2, <4>1, <4>2
    <3>3. CASE x \notin T
      <4>1. (U \ {x}) \cap T = U \cap T /\ g[x] = 0
        BY <2>1, <3>3
      <4>2. SumFunctionOnSet(f, U \cap T) \in Int
        BY <2>2, SumType
      <4> QED BY <2>3, <3>1, <4>1, <4>2
    <3> QED BY <3>2, <3>3
  <2> QED BY <2>1, <2>4
<1> HIDE DEF G
<1>3. S \in G
  BY <1>1, <1>2, SubsetInduction DEF Summable
<1>4. SumFunctionOnSet(g, S) = SumFunctionOnSet(f, S \cap T)
  BY <1>3 DEF G
<1>5. S \cap T = T
  OBVIOUS
<1> QED BY <1>4, <1>5

LEMMA SumPlus ==
  ASSUME NEW f, NEW g, NEW h, NEW S, Summable(f, S), Summable(g, S),
         \A x \in S : h[x] = f[x] + g[x]
  PROVE  SumFunctionOnSet(h, S) = SumFunctionOnSet(f, S) + SumFunctionOnSet(g, S)
<1>1. Summable(h, S)
  BY DEF Summable
<1> DEFINE G == {U \in SUBSET S :
          SumFunctionOnSet(h, U) = SumFunctionOnSet(f, U) + SumFunctionOnSet(g, U)}
<1>2. {} \in G
  BY SumNone
<1>3. ASSUME NEW U \in SUBSET S, U # {}
      PROVE  \E x \in U : U \ {x} \in G => U \in G
  <2>1. PICK x \in U : TRUE
    BY <1>3
  <2>2. Summable(g, U) /\ Summable(f, U) /\ Summable(h, U)
    BY <1>1, FS_Subset DEF Summable
  <2>3. /\ SumFunctionOnSet(f, U) = f[x] + SumFunctionOnSet(f, U \ {x})
        /\ SumFunctionOnSet(g, U) = g[x] + SumFunctionOnSet(g, U \ {x})
        /\ SumFunctionOnSet(h, U) = h[x] + SumFunctionOnSet(h, U \ {x})
    BY <2>1, <2>2, SumTake
  <2>4. Summable(g, U \ {x}) /\ Summable(f, U \ {x})
    BY <2>2, FS_RemoveElement DEF Summable
  <2>5. SumFunctionOnSet(f, U \ {x}) \in Int /\ SumFunctionOnSet(g, U \ {x}) \in Int
    BY <2>4, SumType
  <2>6. f[x] \in Int /\ g[x] \in Int /\ h[x] = f[x] + g[x]
    BY <2>1, <2>2 DEF Summable
  <2>7. U \ {x} \in G => SumFunctionOnSet(h, U \ {x})
            = SumFunctionOnSet(f, U \ {x}) + SumFunctionOnSet(g, U \ {x})
    OBVIOUS
  <2>8. U \ {x} \in G =>
          SumFunctionOnSet(h, U) = SumFunctionOnSet(f, U) + SumFunctionOnSet(g, U)
    BY <2>3, <2>5, <2>6, <2>7
  <2> QED BY <2>1, <2>8
<1> HIDE DEF G
<1>4. S \in G
  BY <1>2, <1>3, SubsetInduction DEF Summable
<1> QED BY <1>4 DEF G

LEMMA SumOnes ==
  ASSUME NEW f, NEW S, IsFiniteSet(S), \A x \in S : f[x] = 1
  PROVE  SumFunctionOnSet(f, S) = Cardinality(S)
<1>1. Summable(f, S)
  BY DEF Summable
<1> DEFINE G == {U \in SUBSET S : SumFunctionOnSet(f, U) = Cardinality(U)}
<1>2. {} \in G
  BY SumNone, FS_EmptySet
<1>3. ASSUME NEW U \in SUBSET S, U # {}
      PROVE  \E x \in U : U \ {x} \in G => U \in G
  <2>1. PICK x \in U : TRUE
    BY <1>3
  <2>2. Summable(f, U) /\ IsFiniteSet(U)
    BY <1>1, FS_Subset DEF Summable
  <2>3. SumFunctionOnSet(f, U) = 1 + SumFunctionOnSet(f, U \ {x})
    BY <2>1, <2>2, SumTake
  <2>4. Cardinality(U \ {x}) = Cardinality(U) - 1 /\ Cardinality(U) \in Nat
    BY <2>1, <2>2, FS_RemoveElement, FS_CardinalityType
  <2>5. U \ {x} \in G => SumFunctionOnSet(f, U) = Cardinality(U)
    BY <2>3, <2>4
  <2> QED BY <2>1, <2>5
<1> HIDE DEF G
<1>4. S \in G
  BY <1>2, <1>3, SubsetInduction
<1> QED BY <1>4 DEF G

LEMMA SumSplit ==
  ASSUME NEW f, NEW S, NEW T \in SUBSET S, Summable(f, S)
  PROVE  SumFunctionOnSet(f, S) = SumFunctionOnSet(f, T) + SumFunctionOnSet(f, S \ T)
<1> DEFINE in == [x \in S |-> IF x \in T THEN f[x] ELSE 0]
           out == [x \in S |-> IF x \in T THEN 0 ELSE f[x]]
<1>1. Summable(in, S) /\ Summable(out, S)
  BY DEF Summable
<1>2. \A x \in S : f[x] = in[x] + out[x]
  BY DEF Summable
<1>3. Summable(f, T) /\ Summable(f, S \ T) /\ S \ T \in SUBSET S
  BY FS_Subset DEF Summable
<1>4. /\ \A x \in T : in[x] = f[x]
      /\ \A x \in S \ T : in[x] = 0
      /\ \A x \in S \ T : out[x] = f[x]
      /\ \A x \in S \ (S \ T) : out[x] = 0
  OBVIOUS
<1> HIDE DEF in, out
<1>5. SumFunctionOnSet(f, S) = SumFunctionOnSet(in, S) + SumFunctionOnSet(out, S)
  BY <1>1, <1>2, SumPlus
<1>6. SumFunctionOnSet(in, S) = SumFunctionOnSet(f, T)
  BY <1>1, <1>3, <1>4, SumOver
<1> DEFINE R == S \ T
<1>7. R \in SUBSET S /\ Summable(f, R)
  BY <1>3
<1>8. (\A x \in R : out[x] = f[x]) /\ (\A x \in S \ R : out[x] = 0)
  BY <1>4
<1> HIDE DEF R
<1>9. SumFunctionOnSet(out, S) = SumFunctionOnSet(f, R)
  BY <1>1, <1>7, <1>8, SumOver
<1> QED BY <1>5, <1>6, <1>9 DEF R

\* A set counted by what its elements are filed under.
LEMMA Filed ==
  ASSUME NEW A, IsFiniteSet(A), NEW key, NEW K, IsFiniteSet(K),
         NEW f, \A k \in K : f[k] = Cardinality({i \in A : key[i] = k})
  PROVE  SumFunctionOnSet(f, K) = Cardinality({i \in A : key[i] \in K})
<1>1. \A k \in K : f[k] \in Nat
  <2> TAKE k \in K
  <2>1. {i \in A : key[i] = k} \in SUBSET A
    OBVIOUS
  <2>2. IsFiniteSet({i \in A : key[i] = k})
    BY <2>1, FS_Subset
  <2> QED BY <2>2, FS_CardinalityType
<1>2. Summable(f, K)
  BY <1>1 DEF Summable
<1> DEFINE Under(L) == {i \in A : key[i] \in L}
           G == {L \in SUBSET K : SumFunctionOnSet(f, L) = Cardinality(Under(L))}
<1>3. {} \in G
  <2>1. Under({}) = {}
    OBVIOUS
  <2> QED BY <2>1, SumNone, FS_EmptySet
<1>4. ASSUME NEW L \in SUBSET K, L # {}
      PROVE  \E x \in L : L \ {x} \in G => L \in G
  <2>1. PICK x \in L : TRUE
    BY <1>4
  <2>2. Summable(f, L)
    BY <1>2, FS_Subset DEF Summable
  <2>3. SumFunctionOnSet(f, L) = f[x] + SumFunctionOnSet(f, L \ {x})
    BY <2>1, <2>2, SumTake
  <2> DEFINE Here == {i \in A : key[i] = x}
  <2>4. Here \in SUBSET A /\ Under(L \ {x}) \in SUBSET A
    OBVIOUS
  <2>5. IsFiniteSet(Here) /\ IsFiniteSet(Under(L \ {x}))
    BY <2>4, FS_Subset
  <2>6. Under(L) = Here \cup Under(L \ {x}) /\ Here \cap Under(L \ {x}) = {}
    BY <2>1
  <2>7. f[x] = Cardinality(Here)
    BY <2>1
  <2> HIDE DEF Here, Under
  <2>8. Cardinality(Under(L)) = Cardinality(Here) + Cardinality(Under(L \ {x})) - 0
    <3> DEFINE There == Under(L \ {x})
    <3>1. IsFiniteSet(There) /\ Under(L) = Here \cup There /\ Here \cap There = {}
      BY <2>5, <2>6
    <3> HIDE DEF There
    <3>2. Cardinality(Here \cup There)
            = Cardinality(Here) + Cardinality(There) - Cardinality(Here \cap There)
      BY <2>5, <3>1, FS_Union
    <3> QED BY <3>1, <3>2, FS_EmptySet DEF There
  <2>9. Cardinality(Here) \in Nat /\ Cardinality(Under(L \ {x})) \in Nat
    BY <2>5, FS_CardinalityType
  <2>10. L \ {x} \in G => SumFunctionOnSet(f, L) = Cardinality(Under(L))
    BY <2>3, <2>7, <2>8, <2>9
  <2> QED BY <2>1, <2>10
<1> HIDE DEF G
<1>5. K \in G
  BY <1>2, <1>3, <1>4, SubsetInduction
<1> QED BY <1>5 DEF G

\* A set of ones and more: the elements, and what each has beyond one.
LEMMA BeyondOne ==
  ASSUME NEW f, NEW C, IsFiniteSet(C), \A k \in C : f[k] \in Nat /\ f[k] >= 1,
         NEW more, more = {k \in C : f[k] > 1},
         NEW g, \A k \in more : g[k] = f[k] - 1
  PROVE  SumFunctionOnSet(f, C) = Cardinality(C) + SumFunctionOnSet(g, more)
<1> DEFINE one == [k \in C |-> 1]
           rest == [k \in C |-> f[k] - 1]
<1>1. Summable(one, C) /\ Summable(rest, C)
  BY DEF Summable
<1>2. \A k \in C : f[k] = one[k] + rest[k] /\ one[k] = 1
  OBVIOUS
<1>3. more \in SUBSET C /\ (\A k \in more : rest[k] = g[k])
      /\ (\A k \in C \ more : rest[k] = 0)
  OBVIOUS
<1>4. Summable(g, more)
  BY <1>3, FS_Subset DEF Summable
<1> HIDE DEF one, rest
<1>5. SumFunctionOnSet(f, C) = SumFunctionOnSet(one, C) + SumFunctionOnSet(rest, C)
  BY <1>1, <1>2, SumPlus
<1>6. SumFunctionOnSet(one, C) = Cardinality(C)
  BY <1>2, SumOnes
<1>7. SumFunctionOnSet(rest, C) = SumFunctionOnSet(g, more)
  BY <1>1, <1>3, <1>4, SumOver
<1> QED BY <1>5, <1>6, <1>7

\* A tally in which one entry has come to be counted once more.
LEMMA OneMore ==
  ASSUME NEW f, NEW S, Summable(f, S), NEW d, NEW g, NEW T, T = S \cup {d},
         \A x \in S \ {d} : g[x] = f[x],
         g[d] = (IF d \in S THEN f[d] ELSE 0) + 1
  PROVE  SumFunctionOnSet(g, T) = SumFunctionOnSet(f, S) + 1
<1> DEFINE R == S \ {d}
<1>1. Summable(f, R) /\ IsFiniteSet(T) /\ R \in SUBSET R /\ R \in SUBSET S
  BY FS_RemoveElement, FS_AddElement DEF Summable
<1>2. (IF d \in S THEN f[d] ELSE 0) \in Int
  BY DEF Summable
<1>3. g[d] \in Int
  BY <1>2
<1>4. Summable(g, T) /\ Summable(g, R)
  BY <1>1, <1>3, FS_RemoveElement DEF Summable
<1>5. T \ {d} = R /\ d \in T
  OBVIOUS
<1>6. SumFunctionOnSet(g, T) = g[d] + SumFunctionOnSet(g, R)
  BY <1>4, <1>5, SumTake
<1>7. SumFunctionOnSet(g, R) = SumFunctionOnSet(f, R)
  <2>1. (\A x \in R : g[x] = f[x]) /\ R \ R = {}
    OBVIOUS
  <2> HIDE DEF R
  <2> QED BY <1>1, <1>4, <2>1, SumOver
<1>8. SumFunctionOnSet(f, S) = (IF d \in S THEN f[d] ELSE 0) + SumFunctionOnSet(f, R)
  <2>1. CASE d \in S
    BY <2>1, SumTake
  <2>2. CASE d \notin S
    <3>1. R = S
      BY <2>2
    <3>2. SumFunctionOnSet(f, S) \in Int
      BY SumType
    <3> HIDE DEF R
    <3> QED BY <2>2, <3>1, <3>2
  <2> QED BY <2>1, <2>2
<1>9. SumFunctionOnSet(f, R) \in Int
  BY <1>1, SumType
<1> HIDE DEF R
<1> QED BY <1>2, <1>6, <1>7, <1>8, <1>9

LEMMA SameSum ==
  ASSUME NEW f, NEW g, NEW S, Summable(f, S), \A x \in S : g[x] = f[x]
  PROVE  SumFunctionOnSet(g, S) = SumFunctionOnSet(f, S)
<1>1. Summable(g, S) /\ S \in SUBSET S /\ \A x \in S \ S : g[x] = 0
  BY DEF Summable
<1> QED BY <1>1, SumOver

-----------------------------------------------------------------------------
(* The report                                                              *)

LEMMA AddFacts ==
  ASSUME NEW E
  PROVE  /\ DOMAIN Add(E) = DOMAIN report \cup E
         /\ \A e \in DOMAIN report \cup E :
              Add(E)[e] = (IF e \in DOMAIN report THEN report[e] ELSE 0)
                          + (IF e \in E THEN 1 ELSE 0)
         /\ Add(E) = [e \in DOMAIN report \cup E |-> Add(E)[e]]
BY DEF Add, (+), SetToBag

LEMMA AddType ==
  ASSUME NEW E, report \in [DOMAIN report -> Nat]
  PROVE  Add(E) \in [DOMAIN Add(E) -> Nat]
<1>1. \A e \in DOMAIN report \cup E : Add(E)[e] \in Nat
  <2> SUFFICES ASSUME NEW e \in DOMAIN report \cup E PROVE Add(E)[e] \in Nat
    OBVIOUS
  <2> DEFINE was == IF e \in DOMAIN report THEN report[e] ELSE 0
             more == IF e \in E THEN 1 ELSE 0
  <2>1. was \in Nat /\ more \in Nat
    OBVIOUS
  <2>2. Add(E)[e] = was + more
    BY AddFacts
  <2> HIDE DEF was, more
  <2> QED BY <2>1, <2>2
<1>2. DOMAIN Add(E) = DOMAIN report \cup E /\ Add(E) = [e \in DOMAIN report \cup E |-> Add(E)[e]]
  BY AddFacts
<1> DEFINE R == Add(E)
<1> HIDE DEF R
<1>3. /\ \A e \in DOMAIN report \cup E : R[e] \in Nat
      /\ DOMAIN R = DOMAIN report \cup E
      /\ R = [e \in DOMAIN report \cup E |-> R[e]]
  BY <1>1, <1>2 DEF R
<1>4. R \in [DOMAIN R -> Nat]
  BY <1>3
<1> QED BY <1>4 DEF R

\* What is not entered keeps its count.
LEMMA AddElsewhere ==
  ASSUME NEW E, NEW e \in DOMAIN report, e \notin E, report[e] \in Nat
  PROVE  Add(E)[e] = report[e]
<1>1. Add(E)[e] = report[e] + 0
  <2>1. Add(E)[e] = (IF e \in DOMAIN report THEN report[e] ELSE 0)
                          + (IF e \in E THEN 1 ELSE 0)
    BY AddFacts
  <2> DEFINE now == Add(E)[e]
  <2> HIDE DEF now
  <2>2. now = (IF e \in DOMAIN report THEN report[e] ELSE 0) + (IF e \in E THEN 1 ELSE 0)
    BY <2>1 DEF now
  <2>3. now = report[e] + 0
    BY <2>2
  <2> QED BY <2>3 DEF now
<1> DEFINE now == Add(E)[e]
<1> HIDE DEF now
<1>2. now = report[e] + 0
  BY <1>1 DEF now
<1>3. now = report[e]
  BY <1>2
<1> QED BY <1>3 DEF now

Concerns(e, categories, source) == e.category \in categories /\ e.source = source
Noted(categories, source) == {e \in DOMAIN report : Concerns(e, categories, source)}

LEMMA ReportedNoted ==
  \A categories, source :
    Reported(categories, source) = SumFunctionOnSet(report, Noted(categories, source))
BY DEF Reported, Noted, Concerns

LEMMA NotedSummable ==
  ASSUME NEW categories, NEW source, report \in [DOMAIN report -> Nat],
         IsFiniteSet(Noted(categories, source))
  PROVE  /\ Summable(report, Noted(categories, source))
         /\ Reported(categories, source) \in Int
<1>1. \A e \in Noted(categories, source) : report[e] \in Int
  BY DEF Noted
<1>2. Summable(report, Noted(categories, source))
  BY <1>1 DEF Summable
<1> QED BY <1>2, SumType, ReportedNoted

\* Entries that are about something else leave a tally as it is.
LEMMA NotedSame ==
  ASSUME NEW categories, NEW source, NEW E, report' = Add(E),
         report \in [DOMAIN report -> Nat], IsFiniteSet(Noted(categories, source)),
         \A e \in E : ~Concerns(e, categories, source)
  PROVE  /\ IsFiniteSet(Noted(categories, source)')
         /\ Reported(categories, source)' = Reported(categories, source)
<1> DEFINE S == Noted(categories, source)
           R == report'
<1>1. Noted(categories, source)' = S
  BY AddFacts DEF Noted
<1>2. \A e \in S : report'[e] = report[e]
  <2> SUFFICES ASSUME NEW e \in S PROVE report'[e] = report[e]
    OBVIOUS
  <2>1. e \in DOMAIN report /\ e \notin E /\ report[e] \in Nat
    BY DEF Noted
  <2> QED BY <2>1, AddElsewhere
<1>3. Summable(report, S)
  BY NotedSummable
<1>4. Reported(categories, source)' = SumFunctionOnSet(R, Noted(categories, source)')
  BY DEF Reported, Noted, Concerns
<1>5. \A e \in S : R[e] = report[e]
  BY <1>2
<1> HIDE DEF R
<1>6. Reported(categories, source) = SumFunctionOnSet(report, S)
  BY ReportedNoted
<1> HIDE DEF S
<1>7. SumFunctionOnSet(R, S) = SumFunctionOnSet(report, S)
  BY <1>3, <1>5, SameSum
<1>8. IsFiniteSet(S)
  BY <1>3 DEF Summable
<1> QED BY <1>1, <1>4, <1>6, <1>7, <1>8

\* One entry that is about it raises a tally by one, whether or not the report
\* has such an entry already.
LEMMA NotedOne ==
  ASSUME NEW categories, NEW source, NEW E, report' = Add(E),
         report \in [DOMAIN report -> Nat], IsFiniteSet(Noted(categories, source)),
         NEW d \in E, Concerns(d, categories, source),
         \A e \in E : e # d => ~Concerns(e, categories, source)
  PROVE  /\ IsFiniteSet(Noted(categories, source)')
         /\ Reported(categories, source)' = Reported(categories, source) + 1
<1> DEFINE S == Noted(categories, source)
           R == report'
           T == Noted(categories, source)'
<1>1. T = S \cup {d}
  <2>1. \A e : e \in T <=> e \in DOMAIN report \cup E /\ Concerns(e, categories, source)
    BY AddFacts DEF Noted
  <2>2. \A e : e \in S <=> e \in DOMAIN report /\ Concerns(e, categories, source)
    BY DEF Noted
  <2> HIDE DEF S, T
  <2> QED BY <2>1, <2>2
<1>2. \A e \in S \ {d} : R[e] = report[e]
  <2> SUFFICES ASSUME NEW e \in S \ {d} PROVE R[e] = report[e]
    OBVIOUS
  <2>1. e \in DOMAIN report /\ e \notin E /\ report[e] \in Nat
    BY DEF Noted
  <2> QED BY <2>1, AddElsewhere
<1>3. R[d] = (IF d \in S THEN report[d] ELSE 0) + 1
  <2>1. d \in S <=> d \in DOMAIN report
    BY DEF Noted
  <2> HIDE DEF S
  <2> QED BY <2>1, AddFacts
<1>4. Summable(report, S)
  BY NotedSummable
<1>5. Reported(categories, source)' = SumFunctionOnSet(R, T)
  BY DEF Reported, Noted, Concerns
<1>6. Reported(categories, source) = SumFunctionOnSet(report, S)
  BY ReportedNoted
<1> HIDE DEF R, S, T
<1>7. SumFunctionOnSet(R, T) = SumFunctionOnSet(report, S) + 1
  BY <1>1, <1>2, <1>3, <1>4, OneMore
<1>8. IsFiniteSet(T)
  BY <1>1, <1>4, FS_AddElement DEF Summable
<1> QED BY <1>5, <1>6, <1>7, <1>8 DEF T

LEMMA LeastOf ==
  ASSUME NEW S \in SUBSET Nat, S # {}
  PROVE  Min(S) \in S /\ \A x \in S : Min(S) <= x
BY LeastNumber DEF Min

Droppers(checks) ==
  DOMAIN checks \in SUBSET Nat /\ \A i \in DOMAIN checks : checks[i].category \in Dropped

\* A row that passes its checks is dropped by no entry, any other by one.
LEMMA RowEntries ==
  ASSUME NEW checks, Droppers(checks), NEW source, NEW key
  PROVE  /\ \A e \in Entries(checks, source, key) :
              e.source = source /\ (e.category = "normalised" \/ e.category \in Dropped)
         /\ Failing(checks) = {} =>
              \A e \in Entries(checks, source, key) : e.category = "normalised"
         /\ Failing(checks) # {} =>
              \E d \in Entries(checks, source, key) :
                /\ d.category \in Dropped /\ d.source = source
                /\ \A e \in Entries(checks, source, key) : e # d => e.category = "normalised"
<1> DEFINE end == IF Failing(checks) = {} THEN Len(checks) + 1 ELSE Min(Failing(checks))
           passed == {j \in 1..(end - 1) : checks[j].rewrote}
           failed == Failing(checks) \cap {end}
           note(i) == Entry(checks[i].as, "normalised", source, <<key>>, <<>>)
           drop(i) == Entry(checks[i].rule, checks[i].category, source, <<key>>, <<>>)
<1>1. Entries(checks, source, key)
        = {note(i) : i \in passed} \cup {drop(i) : i \in failed}
  BY DEF Entries
<1>2. \A i : note(i).category = "normalised" /\ note(i).source = source
  BY DEF Entry
<1>3. \A i \in failed : drop(i).category \in Dropped /\ drop(i).source = source
  <2> TAKE i \in failed
  <2>1. checks[i].category \in Dropped
    BY DEF Failing, Droppers
  <2> QED BY <2>1 DEF Entry
<1>4. Failing(checks) = {} => failed = {}
  OBVIOUS
<1>5. Failing(checks) # {} => failed = {end}
  <2> SUFFICES ASSUME Failing(checks) # {} PROVE failed = {end}
    OBVIOUS
  <2>1. Failing(checks) \in SUBSET Nat
    BY DEF Failing, Droppers
  <2>2. Min(Failing(checks)) \in Failing(checks)
    BY <2>1, LeastOf
  <2> QED BY <2>2
<1> HIDE DEF end, passed, failed, note, drop
<1>6. \A e \in Entries(checks, source, key) :
        (\E i \in passed : e = note(i)) \/ (\E i \in failed : e = drop(i))
  BY <1>1
<1>7. ASSUME Failing(checks) # {}
      PROVE  \E d \in Entries(checks, source, key) :
                /\ d.category \in Dropped /\ d.source = source
                /\ \A e \in Entries(checks, source, key) : e # d => e.category = "normalised"
  <2>1. drop(end) \in Entries(checks, source, key) /\ end \in failed
    BY <1>1, <1>5, <1>7
  <2>2. \A e \in Entries(checks, source, key) : e # drop(end) => e.category = "normalised"
    BY <1>2, <1>5, <1>6, <1>7
  <2> QED BY <1>3, <2>1, <2>2
<1>8. \A e \in Entries(checks, source, key) :
              e.source = source /\ (e.category = "normalised" \/ e.category \in Dropped)
  BY <1>2, <1>3, <1>6
<1>9. Failing(checks) = {} =>
              \A e \in Entries(checks, source, key) : e.category = "normalised"
  BY <1>2, <1>4, <1>6
<1> QED BY <1>7, <1>8, <1>9

-----------------------------------------------------------------------------
(* Types                                                                   *)

AnyRow == DeviceRows \cup TelemetryRows \cup BillingRows

Typed ==
  /\ heading \in [Sources -> DOMAIN Lowered]
  /\ input \in [Sources -> Seq(AnyRow)]
  /\ input.devices \in Seq(DeviceRows)
  /\ readings \in [DOMAIN readings -> Seq(Int)] /\ IsFiniteSet(DOMAIN readings)
  /\ IsFiniteSet(DOMAIN lines)
  /\ report \in [DOMAIN report -> Nat]

LEMMA NumberType ==
  ASSUME NEW t \in Numbers
  PROVE  parse_number(t).ok \in BOOLEAN /\ parse_number(t).value \in Int
<1>1. CASE t.form = "missing"
  BY <1>1 DEF parse_number, Good, Bad
<1>2. CASE t.form # "missing" /\ t.form \in {"malformed", "negative"}
  <2>1. parse_number(t) = Bad("invalid")
    BY <1>2 DEF parse_number
  <2> QED BY <2>1 DEF Bad
<1>3. CASE /\ t.form # "missing" /\ ~(t.form \in {"malformed", "negative"})
           /\ t.unit \notin DOMAIN Scale
  <2>1. parse_number(t) = Bad("invalid")
    BY <1>3 DEF parse_number
  <2> QED BY <2>1 DEF Bad
<1>4. CASE /\ t.form # "missing" /\ ~(t.form \in {"malformed", "negative"})
           /\ t.unit \in DOMAIN Scale
  <2>1. parse_number(t) = Good(t.n * Scale[t.unit],
             IF t.form = "plain" /\ t.unit = "" THEN "canonical" ELSE "normalised")
    BY <1>4 DEF parse_number
  <2>2. Scale[t.unit] \in {1, 1000}
    <3>1. t.unit \in {"", "kw", "mw"}
      BY <1>4 DEF Scale
    <3>2. Scale[t.unit] = IF t.unit = "mw" THEN 1000 ELSE 1
      BY <3>1 DEF Scale
    <3> QED BY <3>2
  <2>3. t.n \in Nat
    BY DEF Numbers
  <2>4. t.n * Scale[t.unit] \in Int
    BY <2>2, <2>3
  <2> DEFINE v == t.n * Scale[t.unit]
  <2> HIDE DEF v
  <2>5. \A how : Good(v, how).ok \in BOOLEAN /\ Good(v, how).value = v
    BY DEF Good
  <2> QED BY <2>1, <2>4, <2>5 DEF v
<1> QED BY <1>1, <1>2, <1>3, <1>4

LEMMA ReadingChecksDrop ==
  ASSUME NEW row PROVE Droppers(ReadingChecks(row))
<1> DEFINE stamp == parse_datetime(row.timestamp)
           value == parse_number(row.energy)
           inside == stamp.value >= Day(Window.first) /\ stamp.value < Day(Window.last) + 1440
           c1 == Check(Key("telemetry", row) = "", "KEY_MISSING", "excluded", ~row.key.exact,
                "TELEMETRY.KEY_CANONICALISED")
           c2 == Check(~stamp.ok, IF stamp.how = "ambiguous" THEN "TELEMETRY.TIMESTAMP_AMBIGUOUS"
                           ELSE "TELEMETRY.TIMESTAMP_INVALID", "excluded", FALSE, "")
           c3 == Check(~inside, "TELEMETRY.TIMESTAMP_OUT_OF_RANGE", "excluded_window",
                ~CanonicalDate(row.timestamp), "TELEMETRY.TIMESTAMP_CANONICALISED")
           c4 == Check(~value.ok, "TELEMETRY.VALUE_INVALID", "excluded",
                value.how # "canonical", "TELEMETRY.VALUE_CANONICALISED")
<1>1. ReadingChecks(row) = <<c1, c2, c3, c4>>
  BY DEF ReadingChecks
<1>2. /\ c1.category \in Dropped /\ c2.category \in Dropped
      /\ c3.category \in Dropped /\ c4.category \in Dropped
  BY DEF Check, Dropped
<1> HIDE DEF c1, c2, c3, c4
<1> QED BY <1>1, <1>2 DEF Droppers

LEMMA LineChecksDrop ==
  ASSUME NEW row PROVE Droppers(LineChecks(row))
<1> DEFINE period == parse_period(row.period)
           kwh == parse_number(row.kwh)
           flag == parse_flag(row.credit)
           inside == /\ period.value >= Month(Window.first[1], Window.first[2])
                     /\ period.value <= Month(Window.last[1], Window.last[2])
           c1 == Check(Key("billing", row) = "", "KEY_MISSING", "excluded", ~row.key.exact,
                "BILLING.KEY_CANONICALISED")
           c2 == Check(~period.ok, "BILLING.PERIOD_INVALID", "excluded",
                period.how = "normalised", "BILLING.PERIOD_CANONICALISED")
           c3 == Check(~inside, "BILLING.PERIOD_OUT_OF_RANGE", "excluded_window", FALSE, "")
           c4 == Check(~kwh.ok, "BILLING.KWH_INVALID", "excluded",
                kwh.how # "canonical", "BILLING.KWH_CANONICALISED")
           c5 == Check(~flag.ok, "BILLING.FLAG_UNKNOWN", "excluded",
                flag.how = "normalised", "BILLING.FLAG_CANONICALISED")
<1>1. LineChecks(row) = <<c1, c2, c3, c4, c5>>
  BY DEF LineChecks
<1>2. /\ c1.category \in Dropped /\ c2.category \in Dropped /\ c3.category \in Dropped
      /\ c4.category \in Dropped /\ c5.category \in Dropped
  BY DEF Check, Dropped
<1> HIDE DEF c1, c2, c3, c4, c5
<1> QED BY <1>1, <1>2 DEF Droppers

LEMMA SetFacts ==
  ASSUME NEW map, NEW key, NEW value
  PROVE  /\ DOMAIN Set(map, key, value) = DOMAIN map \cup {key}
         /\ Set(map, key, value)[key] = value
         /\ \A k \in DOMAIN map \ {key} : Set(map, key, value)[k] = map[k]
BY DEF Set

LEMMA TypedNext == Typed /\ [ReconcileNext]_reconcileVars => Typed'
<1> SUFFICES ASSUME Typed, [ReconcileNext]_reconcileVars PROVE Typed'
  OBVIOUS
<1> USE DEF Typed
<1>1. ASSUME NEW row \in DeviceRows, DeviceRow(row) PROVE Typed'
  <2>1. /\ input' = [input EXCEPT !["devices"] = Append(@, row)]
        /\ UNCHANGED <<heading, readings, lines>>
    BY <1>1 DEF DeviceRow, Read
  <2>2. input' \in [Sources -> Seq(AnyRow)] /\ input'.devices \in Seq(DeviceRows)
    BY <2>1 DEF AnyRow, Sources
  <2>3. \E E : report' = Add(E)
    BY <1>1, Zenon DEF DeviceRow
  <2>4. report' \in [DOMAIN report' -> Nat]
    BY <2>3, AddType
  <2> QED BY <2>1, <2>2, <2>4
<1>2. ASSUME Register PROVE Typed'
  <2>1. UNCHANGED <<heading, input, readings, lines>> /\ \E E : report' = Add(E)
    BY <1>2, Zenon DEF Register
  <2>2. report' \in [DOMAIN report' -> Nat]
    BY <2>1, AddType
  <2> QED BY <2>1, <2>2
<1>3. ASSUME NEW row \in TelemetryRows, TelemetryRow(row) PROVE Typed'
  <2> DEFINE at == <<Key("telemetry", row), parse_datetime(row.timestamp).value>>
             before == IF at \in DOMAIN readings THEN readings[at] ELSE <<>>
             value == parse_number(row.energy).value
             now == Append(before, value)
  <2>1. /\ input' = [input EXCEPT !["telemetry"] = Append(@, row)]
        /\ UNCHANGED <<heading, lines>>
        /\ readings' = IF Failing(ReadingChecks(row)) = {} THEN Set(readings, at, now)
                       ELSE readings
    BY <1>3 DEF TelemetryRow, Read
  <2>2. input' \in [Sources -> Seq(AnyRow)] /\ input'.devices \in Seq(DeviceRows)
    BY <2>1 DEF AnyRow, Sources
  <2>3. \E E : report' = Add(E)
    BY <1>3, Zenon DEF TelemetryRow
  <2>4. report' \in [DOMAIN report' -> Nat]
    BY <2>3, AddType
  <2>5. readings' \in [DOMAIN readings' -> Seq(Int)] /\ IsFiniteSet(DOMAIN readings')
    <3>1. CASE Failing(ReadingChecks(row)) = {}
      <4>1. value \in Int
        BY ReconcileAssumption, NumberType
      <4>2. before \in Seq(Int)
        BY EmptySeq
      <4> HIDE DEF at, before, value
      <4>3. now \in Seq(Int)
        BY <4>1, <4>2
      <4> HIDE DEF now
      <4>4. readings' = Set(readings, at, now)
        BY <2>1, <3>1
      <4>5. DOMAIN readings' = DOMAIN readings \cup {at}
        BY <4>4, SetFacts
      <4>6. readings' \in [DOMAIN readings \cup {at} -> Seq(Int)]
        BY <4>3, <4>4 DEF Set
      <4>7. IsFiniteSet(DOMAIN readings \cup {at})
        BY FS_AddElement
      <4> QED BY <4>5, <4>6, <4>7
    <3>2. CASE Failing(ReadingChecks(row)) # {}
      BY <2>1, <3>2
    <3> QED BY <3>1, <3>2
  <2> QED BY <2>1, <2>2, <2>4, <2>5
<1>4. ASSUME Dedupe PROVE Typed'
  <2>1. UNCHANGED <<heading, input, readings, lines>> /\ \E E : report' = Add(E)
    BY <1>4, Zenon DEF Dedupe
  <2>2. report' \in [DOMAIN report' -> Nat]
    BY <2>1, AddType
  <2> QED BY <2>1, <2>2
<1>5. ASSUME NEW row \in BillingRows, BillingRow(row) PROVE Typed'
  <2>1. /\ input' = [input EXCEPT !["billing"] = Append(@, row)]
        /\ UNCHANGED <<heading, readings>>
        /\ UNCHANGED lines \/ \E line, payload : lines' = Set(lines, line, payload)
    BY <1>5 DEF BillingRow, Read
  <2>2. input' \in [Sources -> Seq(AnyRow)] /\ input'.devices \in Seq(DeviceRows)
    BY <2>1 DEF AnyRow, Sources
  <2>3. \E E : report' = Add(E)
    BY <1>5, Zenon DEF BillingRow
  <2>4. report' \in [DOMAIN report' -> Nat]
    BY <2>3, AddType
  <2>5. IsFiniteSet(DOMAIN lines')
    <3>1. ASSUME NEW line, NEW payload, lines' = Set(lines, line, payload)
          PROVE  IsFiniteSet(DOMAIN lines')
      <4>1. DOMAIN lines' = DOMAIN lines \cup {line}
        BY <3>1, SetFacts
      <4>2. IsFiniteSet(DOMAIN lines \cup {line})
        BY FS_AddElement
      <4> QED BY <4>1, <4>2
    <3> QED BY <2>1, <3>1
  <2> QED BY <2>1, <2>2, <2>4, <2>5
<1>6. ASSUME Presence PROVE Typed'
  <2>1. UNCHANGED <<heading, input, readings, lines>> /\ \E E : report' = Add(E)
    BY <1>6, Zenon DEF Presence
  <2>2. report' \in [DOMAIN report' -> Nat]
    BY <2>1, AddType
  <2> QED BY <2>1, <2>2
<1>7. CASE Count \/ UNCHANGED reconcileVars
  BY <1>7 DEF Count, reconcileVars
<1> QED BY <1>1, <1>2, <1>3, <1>4, <1>5, <1>6, <1>7 DEF ReconcileNext

-----------------------------------------------------------------------------
(* Every reading and every billing line is in the result or in the report  *)

Billed == Dropped \cup {"deduped"}
Lengths == [at \in DOMAIN readings |-> Len(readings[at])]

Tallied ==
  /\ IsFiniteSet(Noted(Dropped, "telemetry"))
  /\ IsFiniteSet(Noted(Billed, "billing"))
  /\ Len(input.telemetry) = Reported(Dropped, "telemetry") + SumFunction(Lengths)
  /\ Len(input.billing) = Cardinality(DOMAIN lines) + Reported(Billed, "billing")

LEMMA LengthsSummable == ASSUME Typed PROVE Summable(Lengths, DOMAIN readings)
<1>1. \A at \in DOMAIN readings : Lengths[at] \in Int
  BY DEF Typed, Lengths
<1> QED BY <1>1 DEF Typed, Summable

LEMMA LengthsSum ==
  SumFunction(Lengths) = SumFunctionOnSet(Lengths, DOMAIN readings)
BY DEF SumFunction, Lengths

LEMMA TallyParts ==
  ASSUME NEW E, report' = Add(E), Typed, Tallied, UNCHANGED <<readings, lines>>,
         UNCHANGED input.telemetry, UNCHANGED input.billing,
         \A e \in E : /\ ~Concerns(e, Dropped, "telemetry")
                      /\ ~Concerns(e, Billed, "billing")
  PROVE  Tallied'
<1>1. /\ IsFiniteSet(Noted(Dropped, "telemetry")')
      /\ Reported(Dropped, "telemetry")' = Reported(Dropped, "telemetry")
  BY NotedSame DEF Typed, Tallied
<1>2. /\ IsFiniteSet(Noted(Billed, "billing")')
      /\ Reported(Billed, "billing")' = Reported(Billed, "billing")
  BY NotedSame DEF Typed, Tallied
<1>3. SumFunction(Lengths)' = SumFunction(Lengths)
  BY DEF SumFunction, Lengths
<1> QED BY <1>1, <1>2, <1>3 DEF Tallied

LEMMA EntryFields ==
  \A rule, category, source, key, value :
    /\ Entry(rule, category, source, key, value).rule = rule
    /\ Entry(rule, category, source, key, value).category = category
    /\ Entry(rule, category, source, key, value).source = source
    /\ Entry(rule, category, source, key, value).key = key
BY DEF Entry

LEMMA DeviceRowTally ==
  ASSUME NEW row, DeviceRow(row), Typed, Tallied PROVE Tallied'
<1> DEFINE key == Key("devices", row)
           E == IF key = ""
                     THEN {Entry("DEVICE.KEY_MISSING", "excluded", "devices", <<>>, <<>>)}
                     ELSE {Entry("DEVICE.KEY_CANONICALISED", "normalised", "devices", <<key>>, <<>>) :
                             z \in IF row.key.exact THEN {} ELSE {1}}
<1>1. report' = Add(E) /\ UNCHANGED <<readings, lines>>
      /\ input' = [input EXCEPT !["devices"] = Append(@, row)]
  BY DEF DeviceRow, Read
<1>2. UNCHANGED input.telemetry /\ UNCHANGED input.billing
  BY <1>1 DEF Typed, Sources
<1>3. ASSUME NEW e \in E PROVE e.source = "devices"
  <2>1. PICK rule, category, at : e = Entry(rule, category, "devices", at, <<>>)
    BY <1>3, Zenon
  <2> QED BY <2>1 DEF Entry
<1> HIDE DEF E
<1>4. \A e \in E : ~Concerns(e, Dropped, "telemetry") /\ ~Concerns(e, Billed, "billing")
  BY <1>3 DEF Concerns
<1> QED BY <1>1, <1>2, <1>4, TallyParts

LEMMA RegisterTally == ASSUME Register, Typed, Tallied PROVE Tallied'
<1> DEFINE E == UNION {DeviceEntries(key) : key \in DeviceKeys}
<1>1. report' = Add(E) /\ UNCHANGED <<readings, lines, input>>
  BY DEF Register
<1>2. \A key : \A e \in DeviceEntries(key) : e.source = "devices"
  BY EntryFields DEF DeviceEntries
<1>3. \A e \in E : e.source = "devices"
  BY <1>2
<1> HIDE DEF E
<1>4. \A e \in E : ~Concerns(e, Dropped, "telemetry") /\ ~Concerns(e, Billed, "billing")
  BY <1>3 DEF Concerns
<1> QED BY <1>1, <1>4, TallyParts

LEMMA DedupeTally == ASSUME Dedupe, Typed, Tallied PROVE Tallied'
<1> DEFINE rule(at) == IF Conflict(readings[at]) THEN "TELEMETRY.DUP_CONFLICT"
                       ELSE "TELEMETRY.DUP_IDENTICAL"
           twice == {r \in DOMAIN readings : Len(readings[r]) > 1}
           off == {r \in DOMAIN readings : OffCadence(r)}
           E == {Entry(rule(at), "deduped", "telemetry", at, <<readings[at][1]>>) : at \in twice}
                \cup {Entry("TELEMETRY.CADENCE_VIOLATION", "reported", "telemetry", at, <<>>) :
                        at \in off}
<1>1. report' = Add(E) /\ UNCHANGED <<readings, lines, input>>
  BY DEF Dedupe
<1> HIDE DEF rule, twice, off
<1>2. ASSUME NEW e \in E PROVE e.source = "telemetry" /\ e.category \in {"deduped", "reported"}
  <2>1. \E u, at, v : \/ e = Entry(u, "deduped", "telemetry", at, v)
                      \/ e = Entry(u, "reported", "telemetry", at, v)
    BY <1>2, Zenon
  <2> QED BY <2>1, EntryFields
<1> HIDE DEF E
<1>3. \A e \in E : ~Concerns(e, Dropped, "telemetry") /\ ~Concerns(e, Billed, "billing")
  BY <1>2 DEF Concerns, Dropped
<1> QED BY <1>1, <1>3, TallyParts

LEMMA PresenceTally == ASSUME Presence, Typed, Tallied PROVE Tallied'
<1> DEFINE E == {Entry("CROSS.TELEMETRY_ONLY", "unknown_entity", "cross", <<k>>, <<>>) : k \in TelemetryOnly}
         \cup {Entry("CROSS.BILLING_ONLY", "unknown_entity", "cross", <<k>>, <<>>) : k \in BillingOnly}
         \cup {Entry("CROSS.DEVICE_ONLY", "unknown_entity", "cross", <<k>>, <<>>) : k \in DevicesOnly}
<1>1. report' = Add(E) /\ UNCHANGED <<readings, lines, input>>
  BY DEF Presence
<1>2. ASSUME NEW e \in E PROVE e.source = "cross"
  <2>1. \E rule, k : e = Entry(rule, "unknown_entity", "cross", <<k>>, <<>>)
    BY <1>2, Zenon
  <2> QED BY <2>1, EntryFields
<1> HIDE DEF E
<1>3. \A e \in E : ~Concerns(e, Dropped, "telemetry") /\ ~Concerns(e, Billed, "billing")
  BY <1>2 DEF Concerns
<1> QED BY <1>1, <1>3, TallyParts

LEMMA TelemetryRowTally ==
  ASSUME NEW row \in TelemetryRows, TelemetryRow(row), Typed, Typed', Tallied PROVE Tallied'
<1> DEFINE checks == ReadingChecks(row)
           at == <<Key("telemetry", row), parse_datetime(row.timestamp).value>>
           before == IF at \in DOMAIN readings THEN readings[at] ELSE <<>>
           value == parse_number(row.energy).value
           now == Append(before, value)
           E == Entries(checks, "telemetry", at[1])
<1>1. /\ input' = [input EXCEPT !["telemetry"] = Append(@, row)]
      /\ UNCHANGED lines /\ report' = Add(E)
      /\ readings' = IF Failing(checks) = {} THEN Set(readings, at, now) ELSE readings
  BY DEF TelemetryRow, Read
<1>2. Droppers(checks)
  BY ReadingChecksDrop
<1>3. value \in Int
  BY ReconcileAssumption, NumberType
<1>4. before \in Seq(Int)
  BY EmptySeq DEF Typed
<1>5. Len(now) = (IF at \in DOMAIN readings THEN Len(readings[at]) ELSE 0) + 1
  <2>1. Len(before) = IF at \in DOMAIN readings THEN Len(readings[at]) ELSE 0
    OBVIOUS
  <2> HIDE DEF at, before, value
  <2> QED BY <1>3, <1>4, <2>1
<1>6. /\ UNCHANGED input.billing
      /\ Len(input'.telemetry) = Len(input.telemetry) + 1
      /\ Len(input.telemetry) \in Int
  BY <1>1 DEF Typed, Sources, AnyRow
<1> HIDE DEF checks, at, before, value, now
<1>7. /\ \A e \in E : e.source = "telemetry" /\ (e.category = "normalised" \/ e.category \in Dropped)
      /\ Failing(checks) = {} => \A e \in E : e.category = "normalised"
      /\ Failing(checks) # {} =>
              \E d \in E :
                /\ d.category \in Dropped /\ d.source = "telemetry"
                /\ \A e \in E : e # d => e.category = "normalised"
  BY <1>2, RowEntries
<1> HIDE DEF E
<1>8. /\ IsFiniteSet(Noted(Billed, "billing")')
      /\ Reported(Billed, "billing")' = Reported(Billed, "billing")
  <2>1. \A e \in E : ~Concerns(e, Billed, "billing")
    BY <1>7 DEF Concerns
  <2> QED BY <1>1, <2>1, NotedSame DEF Typed, Tallied
<1>9. Reported(Dropped, "telemetry") \in Int
  BY NotedSummable DEF Typed, Tallied
<1>10. SumFunction(Lengths) \in Int
  BY LengthsSum, LengthsSummable, SumType
<1>11. /\ IsFiniteSet(Noted(Dropped, "telemetry")')
       /\ Len(input.telemetry)' = Reported(Dropped, "telemetry")' + SumFunction(Lengths)'
  <2>1. CASE Failing(checks) = {}
    <3>1. \A e \in E : ~Concerns(e, Dropped, "telemetry")
      BY <1>7, <2>1 DEF Concerns, Dropped
    <3>2. /\ IsFiniteSet(Noted(Dropped, "telemetry")')
          /\ Reported(Dropped, "telemetry")' = Reported(Dropped, "telemetry")
      BY <1>1, <3>1, NotedSame DEF Typed, Tallied
    <3> DEFINE f == Lengths
               S == DOMAIN readings
               g == Lengths'
               T == DOMAIN readings'
    <3>3. /\ T = S \cup {at} /\ readings'[at] = now
          /\ \A r \in S \ {at} : readings'[r] = readings[r]
      <4>1. readings' = Set(readings, at, now)
        BY <1>1, <2>1
      <4>2. /\ DOMAIN Set(readings, at, now) = DOMAIN readings \cup {at}
            /\ Set(readings, at, now)[at] = now
            /\ \A r \in DOMAIN readings \ {at} : Set(readings, at, now)[r] = readings[r]
        BY DEF Set
      <4> QED BY <4>1, <4>2
    <3>4. \A r \in T : g[r] = Len(readings'[r])
      BY DEF Lengths
    <3>5. \A r \in S : f[r] = Len(readings[r])
      BY DEF Lengths
    <3>6. Summable(f, S)
      BY LengthsSummable
    <3>7. SumFunction(Lengths)' = SumFunctionOnSet(g, T)
      BY DEF SumFunction, Lengths
    <3>8. SumFunction(Lengths) = SumFunctionOnSet(f, S)
      BY LengthsSum
    <3> HIDE DEF f, g, S, T
    <3>9. \A r \in S \ {at} : g[r] = f[r]
      BY <3>3, <3>4, <3>5
    <3>10. g[at] = (IF at \in S THEN f[at] ELSE 0) + 1
      <4>1. g[at] = Len(now)
        BY <3>3, <3>4
      <4>2. g[at] = (IF at \in S THEN Len(readings[at]) ELSE 0) + 1
        BY <1>5, <4>1 DEF S
      <4>3. (IF at \in S THEN Len(readings[at]) ELSE 0) = (IF at \in S THEN f[at] ELSE 0)
        BY <3>5
      <4> QED BY <4>2, <4>3
    <3>11. SumFunctionOnSet(g, T) = SumFunctionOnSet(f, S) + 1
      BY <3>3, <3>6, <3>9, <3>10, OneMore
    <3>12. Len(input.telemetry)' = Reported(Dropped, "telemetry") + SumFunction(Lengths) + 1
      BY <1>6, <1>9, <1>10 DEF Tallied
    <3>13. SumFunction(Lengths)' = SumFunction(Lengths) + 1
      BY <3>7, <3>8, <3>11
    <3> QED BY <1>9, <1>10, <3>2, <3>12, <3>13
  <2>2. CASE Failing(checks) # {}
    <3>1. PICK d \in E : /\ d.category \in Dropped /\ d.source = "telemetry"
                         /\ \A e \in E : e # d => e.category = "normalised"
      BY <1>7, <2>2
    <3>2. Concerns(d, Dropped, "telemetry")
      BY <3>1 DEF Concerns
    <3>3. \A e \in E : e # d => ~Concerns(e, Dropped, "telemetry")
      BY <3>1 DEF Concerns, Dropped
    <3>4. /\ IsFiniteSet(Noted(Dropped, "telemetry")')
          /\ Reported(Dropped, "telemetry")' = Reported(Dropped, "telemetry") + 1
      BY <1>1, <3>2, <3>3, NotedOne DEF Typed, Tallied
    <3>5. SumFunction(Lengths)' = SumFunction(Lengths)
      BY <1>1, <2>2 DEF SumFunction, Lengths
    <3>6. Len(input.telemetry)' = Reported(Dropped, "telemetry") + SumFunction(Lengths) + 1
      BY <1>6, <1>9, <1>10 DEF Tallied
    <3> QED BY <1>9, <1>10, <3>4, <3>5, <3>6
  <2> QED BY <2>1, <2>2
<1> QED BY <1>1, <1>6, <1>8, <1>11 DEF Tallied

LEMMA BillingRowTally ==
  ASSUME NEW row, BillingRow(row), Typed, Tallied PROVE Tallied'
<1> DEFINE checks == LineChecks(row)
           line == <<Key("billing", row), parse_period(row.period).value>>
           payload == <<parse_number(row.kwh).value, parse_flag(row.credit).value>>
           entries == Entries(checks, "billing", line[1])
           rule == IF lines[line] # payload THEN "BILLING.DUP_CONFLICT"
                   ELSE "BILLING.DUP_IDENTICAL"
           twice == Entry(rule, "deduped", "billing", line, payload)
<1>1. /\ input' = [input EXCEPT !["billing"] = Append(@, row)]
      /\ UNCHANGED readings
      /\ \/ /\ Failing(checks) = {} /\ line \in DOMAIN lines
            /\ report' = Add(entries \cup {twice}) /\ UNCHANGED lines
         \/ /\ Failing(checks) = {} /\ line \notin DOMAIN lines
            /\ report' = Add(entries) /\ lines' = Set(lines, line, payload)
         \/ Failing(checks) # {} /\ report' = Add(entries) /\ UNCHANGED lines
  BY DEF BillingRow, Read
<1>2. Droppers(checks)
  BY LineChecksDrop
<1>3. /\ UNCHANGED input.telemetry
      /\ Len(input'.billing) = Len(input.billing) + 1
      /\ Len(input.billing) \in Int
  BY <1>1 DEF Typed, Sources, AnyRow
<1>4. twice.category = "deduped" /\ twice.source = "billing"
  BY EntryFields
<1> HIDE DEF checks, line, payload, rule, twice
<1>5. /\ \A e \in entries : e.source = "billing" /\ (e.category = "normalised" \/ e.category \in Dropped)
      /\ Failing(checks) = {} => \A e \in entries : e.category = "normalised"
      /\ Failing(checks) # {} =>
              \E d \in entries :
                /\ d.category \in Dropped /\ d.source = "billing"
                /\ \A e \in entries : e # d => e.category = "normalised"
  BY <1>2, RowEntries
<1> HIDE DEF entries
<1>6. PICK E : report' = Add(E) /\ E \in {entries, entries \cup {twice}}
  BY <1>1
<1>7. \A e \in E : ~Concerns(e, Dropped, "telemetry")
  BY <1>4, <1>5, <1>6 DEF Concerns
<1>8. /\ IsFiniteSet(Noted(Dropped, "telemetry")')
      /\ Reported(Dropped, "telemetry")' = Reported(Dropped, "telemetry")
  BY <1>6, <1>7, NotedSame DEF Typed, Tallied
<1>9. SumFunction(Lengths)' = SumFunction(Lengths)
  BY <1>1 DEF SumFunction, Lengths
<1>10. Reported(Billed, "billing") \in Int
  BY NotedSummable DEF Typed, Tallied
<1>11. Cardinality(DOMAIN lines) \in Int
  BY FS_CardinalityType DEF Typed
<1>12. Len(input.billing)' = Cardinality(DOMAIN lines) + Reported(Billed, "billing") + 1
  BY <1>3, <1>10, <1>11 DEF Tallied
<1>13. /\ IsFiniteSet(Noted(Billed, "billing")')
       /\ Len(input.billing)' = Cardinality(DOMAIN lines)' + Reported(Billed, "billing")'
  <2>1. ASSUME NEW F, report' = Add(F), UNCHANGED lines, NEW d \in F,
               Concerns(d, Billed, "billing"),
               \A e \in F : e # d => ~Concerns(e, Billed, "billing")
        PROVE  /\ IsFiniteSet(Noted(Billed, "billing")')
               /\ Len(input.billing)' = Cardinality(DOMAIN lines)' + Reported(Billed, "billing")'
    <3>1. /\ IsFiniteSet(Noted(Billed, "billing")')
          /\ Reported(Billed, "billing")' = Reported(Billed, "billing") + 1
      BY <2>1, NotedOne DEF Typed, Tallied
    <3>2. Cardinality(DOMAIN lines)' = Cardinality(DOMAIN lines)
      BY <2>1
    <3> QED BY <1>10, <1>11, <1>12, <3>1, <3>2
  <2>2. CASE /\ Failing(checks) = {} /\ line \in DOMAIN lines
             /\ report' = Add(entries \cup {twice}) /\ UNCHANGED lines
    <3>1. Concerns(twice, Billed, "billing")
      BY <1>4 DEF Concerns, Billed
    <3>2. \A e \in entries \cup {twice} : e # twice => ~Concerns(e, Billed, "billing")
      BY <1>5, <2>2 DEF Concerns, Billed, Dropped
    <3> QED BY <2>1, <2>2, <3>1, <3>2
  <2>3. CASE /\ Failing(checks) = {} /\ line \notin DOMAIN lines
             /\ report' = Add(entries) /\ lines' = Set(lines, line, payload)
    <3>1. \A e \in entries : ~Concerns(e, Billed, "billing")
      BY <1>5, <2>3 DEF Concerns, Billed, Dropped
    <3>2. /\ IsFiniteSet(Noted(Billed, "billing")')
          /\ Reported(Billed, "billing")' = Reported(Billed, "billing")
      BY <2>3, <3>1, NotedSame DEF Typed, Tallied
    <3>3. DOMAIN lines' = DOMAIN lines \cup {line}
      BY <2>3, SetFacts
    <3>4. Cardinality(DOMAIN lines \cup {line}) = Cardinality(DOMAIN lines) + 1
      BY <2>3, FS_AddElement DEF Typed
    <3>5. Cardinality(DOMAIN lines)' = Cardinality(DOMAIN lines) + 1
      BY <3>3, <3>4
    <3> QED BY <1>10, <1>11, <1>12, <3>2, <3>5
  <2>4. CASE Failing(checks) # {} /\ report' = Add(entries) /\ UNCHANGED lines
    <3>1. PICK d \in entries : /\ d.category \in Dropped /\ d.source = "billing"
                               /\ \A e \in entries : e # d => e.category = "normalised"
      BY <1>5, <2>4
    <3>2. Concerns(d, Billed, "billing")
      BY <3>1 DEF Concerns, Billed
    <3>3. \A e \in entries : e # d => ~Concerns(e, Billed, "billing")
      BY <3>1 DEF Concerns, Billed, Dropped
    <3> QED BY <2>1, <2>4, <3>2, <3>3
  <2> QED BY <1>1, <2>2, <2>3, <2>4
<1> QED BY <1>3, <1>8, <1>9, <1>13 DEF Tallied

LEMMA TalliedNext ==
  ASSUME Typed, Typed', Tallied, [ReconcileNext]_reconcileVars PROVE Tallied'
<1>1. CASE Count \/ UNCHANGED reconcileVars
  <2>1. UNCHANGED <<input, readings, lines, report>>
    BY <1>1 DEF Count, reconcileVars
  <2> QED BY <2>1 DEF Tallied, Noted, Reported, SumFunction, Lengths
<1> QED BY <1>1, DeviceRowTally, RegisterTally, TelemetryRowTally, DedupeTally,
           BillingRowTally, PresenceTally DEF ReconcileNext

-----------------------------------------------------------------------------
(* A device that is excluded has an entry that says why                    *)

Registering ==
  stage # "devices" =>
    /\ registry = [key \in DeviceKeys |-> Registered(key)]
    /\ \A k \in DeviceKeys : registry[k].excluded =>
         \E e \in DOMAIN report : e.rule \in Disqualifying /\ e.key = <<k>>

Named ==
  stage \in {"billing", "count", "done"} =>
    \A at \in DOMAIN readings : Len(readings[at]) > 1 =>
      \E e \in DOMAIN report : e.category = "deduped" /\ e.key = at

LEMMA ReportGrows ==
  ASSUME [ReconcileNext]_reconcileVars PROVE DOMAIN report \subseteq DOMAIN report'
<1>1. ASSUME NEW E, report' = Add(E) PROVE DOMAIN report \subseteq DOMAIN report'
  BY <1>1, AddFacts
<1>2. ASSUME NEW row \in DeviceRows, DeviceRow(row) PROVE \E E : report' = Add(E)
  BY <1>2, Zenon DEF DeviceRow
<1>3. ASSUME Register PROVE \E E : report' = Add(E)
  BY <1>3, Zenon DEF Register
<1>4. ASSUME NEW row \in TelemetryRows, TelemetryRow(row) PROVE \E E : report' = Add(E)
  BY <1>4, Zenon DEF TelemetryRow
<1>5. ASSUME Dedupe PROVE \E E : report' = Add(E)
  BY <1>5, Zenon DEF Dedupe
<1>6. ASSUME NEW row \in BillingRows, BillingRow(row) PROVE \E E : report' = Add(E)
  BY <1>6, Zenon DEF BillingRow
<1>7. ASSUME Presence PROVE \E E : report' = Add(E)
  BY <1>7, Zenon DEF Presence
<1>8. CASE Count \/ UNCHANGED reconcileVars
  BY <1>8 DEF Count, reconcileVars
<1> QED BY <1>1, <1>2, <1>3, <1>4, <1>5, <1>6, <1>7, <1>8, Zenon DEF ReconcileNext

LEMMA DevicesStay ==
  ASSUME UNCHANGED heading, UNCHANGED input.devices
  PROVE  /\ DeviceKeys' = DeviceKeys
         /\ \A key : Registered(key)' = Registered(key)
         /\ \A key : RecordsOf(key)' = RecordsOf(key)
<1>1. \A row : Key("devices", row)' = Key("devices", row)
  BY DEF Key
<1>2. DeviceKeys' = DeviceKeys
  BY <1>1 DEF DeviceKeys
<1>3. \A key : RecordsOf(key)' = RecordsOf(key)
  BY <1>1 DEF RecordsOf
<1>4. \A key : Survivor(key)' = Survivor(key)
  BY <1>3 DEF Survivor
<1>5. \A key : Identical(key)' = Identical(key)
  BY <1>3, <1>4 DEF Identical
<1>6. \A key : Registered(key)' = Registered(key)
  BY <1>4, <1>5 DEF Registered
<1> QED BY <1>2, <1>3, <1>6

\* After the register is made nothing touches it or what it was made from.
LEMMA AfterRegister ==
  ASSUME Typed, [ReconcileNext]_reconcileVars, stage # "devices"
  PROVE  UNCHANGED heading /\ UNCHANGED input.devices /\ UNCHANGED registry /\ stage' # "devices"
<1>1. ASSUME NEW row \in DeviceRows, DeviceRow(row) PROVE FALSE
  BY <1>1 DEF DeviceRow
<1>2. ASSUME Register PROVE FALSE
  BY <1>2 DEF Register
<1>3. ASSUME NEW row, TelemetryRow(row) PROVE
          UNCHANGED <<heading, registry, stage>> /\ UNCHANGED input.devices
  BY <1>3 DEF TelemetryRow, Read, Typed, Sources
<1>4. ASSUME NEW row, BillingRow(row) PROVE
          UNCHANGED <<heading, registry, stage>> /\ UNCHANGED input.devices
  BY <1>4 DEF BillingRow, Read, Typed, Sources
<1>5. CASE Dedupe \/ Presence \/ Count \/ UNCHANGED reconcileVars
  BY <1>5 DEF Dedupe, Presence, Count, reconcileVars
<1> QED BY <1>1, <1>2, <1>3, <1>4, <1>5 DEF ReconcileNext

\* An excluded device has a rule against it.
LEMMA ExcludedSays ==
  ASSUME NEW k, Registered(k).excluded
  PROVE  \E e \in DeviceEntries(k) : e.rule \in Disqualifying /\ e.key = <<k>>
<1>1. CASE ~Identical(k)
  BY <1>1, EntryFields DEF DeviceEntries, Disqualifying
<1>2. CASE Identical(k)
  <2>1. Finalized(Survivor(k)).excluded
    BY <1>2 DEF Registered
  <2>2. PICK r \in Rules(Survivor(k)) : r[1] \in Disqualifying
    BY <2>1 DEF Finalized
  <2> DEFINE e == Entry(r[1], r[2], "devices", <<k>>, <<>>)
  <2>3. e \in DeviceEntries(k)
    BY <1>2 DEF DeviceEntries
  <2>4. e.rule = r[1] /\ e.key = <<k>>
    BY EntryFields
  <2> QED BY <2>2, <2>3, <2>4
<1> QED BY <1>1, <1>2

LEMMA RegisteringNext ==
  ASSUME Typed, Registering, [ReconcileNext]_reconcileVars PROVE Registering'
<1>1. CASE stage # "devices"
  <2>1. UNCHANGED heading /\ UNCHANGED input.devices /\ UNCHANGED registry
    BY <1>1, AfterRegister
  <2>2. DeviceKeys' = DeviceKeys /\ \A key : Registered(key)' = Registered(key)
    BY <2>1, DevicesStay
  <2>3. DOMAIN report \subseteq DOMAIN report'
    BY ReportGrows
  <2>4. registry' = [key \in DeviceKeys' |-> Registered(key)']
    BY <1>1, <2>1, <2>2 DEF Registering
  <2>5. \A k \in DeviceKeys' : registry'[k].excluded =>
          \E e \in DOMAIN report' : e.rule \in Disqualifying /\ e.key = <<k>>
    BY <1>1, <2>1, <2>2, <2>3, Zenon DEF Registering
  <2> QED BY <2>4, <2>5 DEF Registering
<1>2. CASE Register
  <2>1. /\ UNCHANGED <<heading, input>>
        /\ registry' = [key \in DeviceKeys |-> Registered(key)]
        /\ report' = Add(UNION {DeviceEntries(key) : key \in DeviceKeys})
    BY <1>2 DEF Register
  <2>2. DeviceKeys' = DeviceKeys /\ \A key : Registered(key)' = Registered(key)
    BY <2>1, DevicesStay
  <2>3. ASSUME NEW k \in DeviceKeys, registry'[k].excluded
        PROVE  \E e \in DOMAIN report' : e.rule \in Disqualifying /\ e.key = <<k>>
    <3>1. Registered(k).excluded
      BY <2>1, <2>3
    <3>2. PICK e \in DeviceEntries(k) : e.rule \in Disqualifying /\ e.key = <<k>>
      BY <3>1, ExcludedSays
    <3>3. e \in UNION {DeviceEntries(key) : key \in DeviceKeys}
      OBVIOUS
    <3>4. e \in DOMAIN report'
      BY <2>1, <3>3, AddFacts
    <3> QED BY <3>2, <3>4
  <2> QED BY <2>1, <2>2, <2>3 DEF Registering
<1>3. CASE stage = "devices" /\ ~Register
  <2>1. stage' = "devices"
    BY <1>3 DEF ReconcileNext, DeviceRow, TelemetryRow, Dedupe, BillingRow, Presence, Count,
                reconcileVars
  <2> QED BY <2>1 DEF Registering
<1> QED BY <1>1, <1>2, <1>3

LEMMA NamedNext ==
  ASSUME Named, [ReconcileNext]_reconcileVars PROVE Named'
<1>1. CASE Dedupe
  <2> DEFINE rule(at) == IF Conflict(readings[at]) THEN "TELEMETRY.DUP_CONFLICT"
                         ELSE "TELEMETRY.DUP_IDENTICAL"
             twice == {r \in DOMAIN readings : Len(readings[r]) > 1}
             note(at) == Entry(rule(at), "deduped", "telemetry", at, <<readings[at][1]>>)
             D == {note(at) : at \in twice}
  <2>1. UNCHANGED readings /\ \E F : report' = Add(D \cup F)
    BY <1>1, Zenon DEF Dedupe
  <2>2. \A e \in D : e \in DOMAIN report'
    <3>1. PICK F : report' = Add(D \cup F)
      BY <2>1
    <3> HIDE DEF D
    <3>2. DOMAIN Add(D \cup F) = DOMAIN report \cup (D \cup F)
      BY AddFacts
    <3> QED BY <3>1, <3>2
  <2>3. ASSUME NEW at \in DOMAIN readings', Len(readings'[at]) > 1
        PROVE  \E e \in DOMAIN report' : e.category = "deduped" /\ e.key = at
    <3>1. at \in twice
      BY <2>1, <2>3
    <3>2. note(at) \in DOMAIN report'
      BY <2>2, <3>1
    <3>3. note(at).category = "deduped" /\ note(at).key = at
      BY EntryFields
    <3> QED BY <3>2, <3>3
  <2> QED BY <2>3 DEF Named
<1>2. CASE stage \in {"billing", "count", "done"} /\ ~Dedupe
  <2>1. UNCHANGED readings
    BY <1>2 DEF ReconcileNext, DeviceRow, Register, TelemetryRow, BillingRow, Presence, Count,
                reconcileVars
  <2>2. DOMAIN report \subseteq DOMAIN report'
    BY ReportGrows
  <2> QED BY <1>2, <2>1, <2>2, Zenon DEF Named
<1>3. CASE stage \notin {"billing", "count", "done"} /\ ~Dedupe
  <2>1. stage' \notin {"billing", "count", "done"}
    BY <1>3 DEF ReconcileNext, DeviceRow, Register, TelemetryRow, BillingRow, Presence, Count,
                reconcileVars
  <2> QED BY <2>1 DEF Named
<1> QED BY <1>1, <1>2, <1>3

-----------------------------------------------------------------------------
(* The counts add up                                                       *)

ActiveAt == {i \in DOMAIN input.devices : canonical_status(input.devices[i].status) = "active"}

LEMMA RowsFinite ==
  ASSUME Typed
  PROVE  /\ DOMAIN input.devices \in SUBSET Nat /\ IsFiniteSet(DOMAIN input.devices)
         /\ IsFiniteSet(ActiveAt)
         /\ IsFiniteSet(DeviceKeys)
<1>1. DOMAIN input.devices = 1..Len(input.devices) /\ Len(input.devices) \in Nat
  BY DEF Typed
<1>2. IsFiniteSet(DOMAIN input.devices)
  BY <1>1, FS_Interval
<1>3. IsFiniteSet(ActiveAt)
  BY <1>2, FS_Subset DEF ActiveAt
<1> DEFINE Keys == {Key("devices", input.devices[i]) : i \in DOMAIN input.devices}
<1>4. IsFiniteSet(Keys)
  <2> DEFINE f == [i \in DOMAIN input.devices |-> Key("devices", input.devices[i])]
  <2>1. f \in Surjection(DOMAIN input.devices, Keys)
    BY DEF Surjection
  <2> HIDE DEF f, Keys
  <2> QED BY <1>2, <2>1, FS_Surjection
<1>5. IsFiniteSet(DeviceKeys)
  BY <1>4, FS_Subset DEF DeviceKeys
<1> QED BY <1>1, <1>2, <1>3, <1>5

LEMMA ActiveRowsFiled ==
  \A key : ActiveRows(key) = Cardinality({i \in ActiveAt : Key("devices", input.devices[i]) = key})
<1> SUFFICES ASSUME NEW key
             PROVE  {i \in DOMAIN input.devices :
                        /\ Key("devices", input.devices[i]) = key
                        /\ canonical_status(input.devices[i].status) = "active"}
                    = {i \in ActiveAt : Key("devices", input.devices[i]) = key}
  BY DEF ActiveRows
<1> QED BY DEF ActiveAt

LEMMA ActiveRowsType == ASSUME Typed PROVE \A key : ActiveRows(key) \in Nat
<1> SUFFICES ASSUME NEW key PROVE ActiveRows(key) \in Nat
  OBVIOUS
<1>1. IsFiniteSet({i \in ActiveAt : Key("devices", input.devices[i]) = key})
  BY RowsFinite, FS_Subset
<1> QED BY <1>1, ActiveRowsFiled, FS_CardinalityType

\* The row that survives a collapse is the first.
LEMMA SurvivorIn ==
  ASSUME Typed, NEW k \in DeviceKeys
  PROVE  Min(RecordsOf(k)) \in RecordsOf(k)
<1>1. RecordsOf(k) \in SUBSET Nat
  BY RowsFinite DEF RecordsOf
<1>2. RecordsOf(k) # {}
  BY DEF RecordsOf, DeviceKeys
<1> QED BY <1>1, <1>2, LeastOf

\* A counted device has a row that looks active: the one that survived.
LEMMA CountedActive ==
  ASSUME Typed, registry = [key \in DeviceKeys |-> Registered(key)], NEW k \in Counted
  PROVE  k \in DeviceKeys /\ ActiveRows(k) >= 1
<1>1. k \in DeviceKeys /\ Registered(k).status = "active" /\ ~Registered(k).excluded
  BY DEF Counted
<1>2. Identical(k)
  BY <1>1 DEF Registered, Excluded
<1>3. canonical_status(Survivor(k).status) = "active"
  BY <1>1, <1>2 DEF Registered, Finalized
<1> DEFINE i == Min(RecordsOf(k))
           R == {j \in ActiveAt : Key("devices", input.devices[j]) = k}
<1>4. i \in RecordsOf(k)
  BY <1>1, SurvivorIn
<1>5. i \in R
  BY <1>3, <1>4 DEF Survivor, RecordsOf, ActiveAt
<1>6. IsFiniteSet(R)
  BY RowsFinite, FS_Subset
<1> HIDE DEF i
<1>7. Cardinality(R) # 0 /\ Cardinality(R) \in Nat
  BY <1>5, <1>6, FS_EmptySet, FS_CardinalityType
<1>8. ActiveRows(k) = Cardinality(R)
  BY ActiveRowsFiled
<1> QED BY <1>1, <1>7, <1>8

LEMMA GapAddsUp ==
  ASSUME Typed, registry = [key \in DeviceKeys |-> Registered(key)]
  PROVE  /\ Cardinality(ActiveAt) - Cardinality(Counted)
              = Collapsed + SumFunction([k \in DeviceKeys \ Counted |-> ActiveRows(k)])
                + ActiveRows("")
<1> DEFINE blank == ""
           D == DeviceKeys
           K == D \cup {blank}
           rows == [k \in K |-> ActiveRows(k)]
           keys == [i \in ActiveAt |-> Key("devices", input.devices[i])]
           C == Counted
           more == {k \in C : rows[k] > 1}
           extra == [k \in {j \in Counted : ActiveRows(j) > 1} |-> ActiveRows(k) - 1]
           rest == [k \in DeviceKeys \ Counted |-> ActiveRows(k)]
<1>1. IsFiniteSet(K) /\ IsFiniteSet(D) /\ IsFiniteSet(ActiveAt) /\ blank \notin D
  <2>1. IsFiniteSet(D) /\ IsFiniteSet(ActiveAt)
    BY RowsFinite
  <2>2. IsFiniteSet(K)
    BY <2>1, FS_AddElement
  <2> QED BY <2>1, <2>2 DEF DeviceKeys
<1>2. /\ \A k \in K : rows[k] = Cardinality({i \in ActiveAt : keys[i] = k})
      /\ \A k \in K : rows[k] \in Nat /\ rows[k] = ActiveRows(k)
  <2>1. \A k \in K : rows[k] = ActiveRows(k) /\ rows[k] \in Nat
    BY ActiveRowsType
  <2>2. \A k : {i \in ActiveAt : keys[i] = k}
               = {i \in ActiveAt : Key("devices", input.devices[i]) = k}
    OBVIOUS
  <2> HIDE DEF rows, keys
  <2> QED BY <2>1, <2>2, ActiveRowsFiled
<1>3. {i \in ActiveAt : keys[i] \in K} = ActiveAt
  <2>1. \A i \in ActiveAt : keys[i] \in K
    BY DEF ActiveAt, DeviceKeys
  <2> HIDE DEF keys
  <2> QED BY <2>1
<1>4. C \subseteq D /\ \A k \in C : rows[k] >= 1 /\ rows[k] \in Nat
  <2>1. \A k \in Counted : k \in DeviceKeys /\ ActiveRows(k) >= 1
    BY CountedActive
  <2> QED BY <1>2, <2>1
<1>5. SumFunctionOnSet(rows, K) = Cardinality(ActiveAt)
  <2> HIDE DEF rows, keys, K
  <2>1. SumFunctionOnSet(rows, K) = Cardinality({i \in ActiveAt : keys[i] \in K})
    <3>1. IsFiniteSet(ActiveAt) /\ IsFiniteSet(K)
      BY <1>1
    <3>2. \A k \in K : rows[k] = Cardinality({i \in ActiveAt : keys[i] = k})
      BY <1>2
    <3> DEFINE A == ActiveAt
    <3> HIDE DEF A
    <3>3. IsFiniteSet(A) /\ IsFiniteSet(K)
          /\ \A k \in K : rows[k] = Cardinality({i \in A : keys[i] = k})
      BY <3>1, <3>2 DEF A
    <3>4. SumFunctionOnSet(rows, K) = Cardinality({i \in A : keys[i] \in K})
      BY <3>3, Filed
    <3> QED BY <3>4 DEF A
  <2> QED BY <1>3, <2>1
<1>6. more = {j \in Counted : ActiveRows(j) > 1}
      /\ \A k \in more : extra[k] = rows[k] - 1
  <2>1. \A k \in C : rows[k] = ActiveRows(k)
    BY <1>2, <1>4
  <2>2. more = {j \in Counted : ActiveRows(j) > 1}
    <3> HIDE DEF rows
    <3> QED BY <2>1
  <2>3. \A k \in {j \in Counted : ActiveRows(j) > 1} : extra[k] = ActiveRows(k) - 1
    OBVIOUS
  <2> HIDE DEF rows, extra
  <2> QED BY <2>1, <2>2, <2>3
<1>7. Collapsed = SumFunctionOnSet(extra, more)
  BY <1>6 DEF Collapsed, SumFunction
<1>8. SumFunction(rest) = SumFunctionOnSet(rest, D \ C)
  BY DEF SumFunction
<1>9. \A k \in D \ C : rest[k] = rows[k]
  OBVIOUS
<1>10. rows[blank] = ActiveRows(blank)
  OBVIOUS
<1>11. (K \ {blank}) = D /\ blank \in K /\ D \in SUBSET K
  BY <1>1
<1> HIDE DEF blank, D, K, rows, keys, C, more, extra, rest
<1>12. Summable(rows, K) /\ Summable(rows, D) /\ Summable(rows, D \ C)
  <2>1. \A k \in K : rows[k] \in Int
    BY <1>2
  <2>2. IsFiniteSet(D \ C)
    BY <1>1, FS_Subset
  <2> QED BY <1>1, <1>11, <2>1, <2>2 DEF Summable
<1>13. SumFunctionOnSet(rows, K) = rows[blank] + SumFunctionOnSet(rows, D)
  <2>1. SumFunctionOnSet(rows, K) = rows[blank] + SumFunctionOnSet(rows, K \ {blank})
    BY <1>11, <1>12, SumTake
  <2> QED BY <1>11, <2>1
<1>14. SumFunctionOnSet(rows, D) = SumFunctionOnSet(rows, C) + SumFunctionOnSet(rows, D \ C)
  BY <1>4, <1>12, SumSplit
<1>15. IsFiniteSet(C) /\ Cardinality(C) \in Nat
  BY <1>1, <1>4, FS_Subset, FS_CardinalityType
<1>16. SumFunctionOnSet(rows, C) = Cardinality(C) + SumFunctionOnSet(extra, more)
  <2>1. more = {k \in C : rows[k] > 1}
    BY DEF more
  <2> QED BY <1>4, <1>6, <1>15, <2>1, BeyondOne
<1>17. SumFunctionOnSet(rest, D \ C) = SumFunctionOnSet(rows, D \ C)
  BY <1>9, <1>12, SameSum
<1>18. /\ SumFunctionOnSet(rows, D \ C) \in Int /\ SumFunctionOnSet(rows, D) \in Int
       /\ SumFunctionOnSet(rows, K) \in Int /\ rows[blank] \in Int
  <2>1. rows[blank] \in Int
    BY <1>2, <1>11
  <2> QED BY <1>12, <2>1, SumType
<1>19. Summable(extra, more)
  <2>1. \A k \in more : extra[k] \in Int
    BY <1>4, <1>6 DEF more
  <2>2. IsFiniteSet(more)
    BY <1>15, FS_Subset DEF more
  <2> QED BY <2>1, <2>2 DEF Summable
<1>20. SumFunctionOnSet(extra, more) \in Int
  BY <1>19, SumType
<1>21. Cardinality(ActiveAt) - Cardinality(C)
         = SumFunctionOnSet(extra, more) + SumFunctionOnSet(rest, D \ C) + rows[blank]
  <2> DEFINE all == SumFunctionOnSet(rows, K)
             keyed == SumFunctionOnSet(rows, D)
             ofC == SumFunctionOnSet(rows, C)
             others == SumFunctionOnSet(rows, D \ C)
             none == rows[blank]
             n == Cardinality(C)
             beyond == SumFunctionOnSet(extra, more)
  <2>1. /\ all = none + keyed /\ keyed = ofC + others /\ ofC = n + beyond
        /\ none \in Int /\ others \in Int /\ n \in Int /\ beyond \in Int
    BY <1>13, <1>14, <1>15, <1>16, <1>18, <1>20
  <2>2. Cardinality(ActiveAt) = all /\ SumFunctionOnSet(rest, D \ C) = others
    BY <1>5, <1>17
  <2> HIDE DEF all, keyed, ofC, others, none, n, beyond
  <2>3. all - n = beyond + others + none
    BY <2>1
  <2> QED BY <2>2, <2>3 DEF all, n, beyond, others, none
<1> QED BY <1>7, <1>8, <1>10, <1>21 DEF blank, C, rest, D

Closed ==
  stage = "done" =>
    /\ summary.counted = Counted
    /\ summary.appearing - Cardinality(summary.counted)
         = summary.collapsed + summary.disqualified + summary.keyless

LEMMA ClosedNext ==
  ASSUME Typed, Registering, Closed, [ReconcileNext]_reconcileVars PROVE Closed'
<1>1. CASE Count
  <2>1. /\ summary'.appearing = Cardinality(ActiveAt)
        /\ summary'.counted = Counted /\ summary'.collapsed = Collapsed
        /\ summary'.disqualified = SumFunction([k \in DeviceKeys \ Counted |-> ActiveRows(k)])
        /\ summary'.keyless = ActiveRows("")
        /\ UNCHANGED registry /\ stage = "count"
    BY <1>1 DEF Count, ActiveAt
  <2>2. registry = [key \in DeviceKeys |-> Registered(key)]
    BY <2>1 DEF Registering
  <2>3. Counted' = Counted
    BY <2>1 DEF Counted
  <2>4. Cardinality(ActiveAt) - Cardinality(Counted)
              = Collapsed + SumFunction([k \in DeviceKeys \ Counted |-> ActiveRows(k)])
                + ActiveRows("")
    BY <2>2, GapAddsUp
  <2> QED BY <2>1, <2>3, <2>4 DEF Closed
<1>2. CASE UNCHANGED reconcileVars
  BY <1>2 DEF reconcileVars, Closed, Counted
<1>3. CASE ~Count /\ ~UNCHANGED reconcileVars
  <2>1. stage' # "done"
    BY <1>3 DEF ReconcileNext, DeviceRow, Register, TelemetryRow, Dedupe, BillingRow, Presence
  <2> QED BY <2>1 DEF Closed
<1> QED BY <1>1, <1>2, <1>3

-----------------------------------------------------------------------------
(* The pipeline                                                            *)

ReconcileInv == Typed /\ Tallied /\ Registering /\ Named /\ Closed

LEMMA ReconcileInvInit == ReconcileInit => ReconcileInv
<1> SUFFICES ASSUME ReconcileInit PROVE ReconcileInv
  OBVIOUS
<1>1. /\ stage = "devices" /\ input = [source \in Sources |-> <<>>] /\ heading \in Headings
      /\ readings = <<>> /\ lines = <<>> /\ report = EmptyBag
  BY DEF ReconcileInit
<1>2. DOMAIN readings = {} /\ DOMAIN lines = {} /\ DOMAIN report = {}
  BY <1>1 DEF EmptyBag, SetToBag
<1>3. Typed
  <2>1. heading \in [Sources -> DOMAIN Lowered]
    BY <1>1, ReconcileAssumption
  <2>2. input \in [Sources -> Seq(AnyRow)] /\ input.devices \in Seq(DeviceRows)
    BY <1>1, EmptySeq DEF Sources
  <2>3. readings \in [DOMAIN readings -> Seq(Int)]
    BY <1>1, <1>2
  <2>4. report \in [DOMAIN report -> Nat]
    BY <1>1 DEF EmptyBag, SetToBag
  <2> QED BY <1>2, <2>1, <2>2, <2>3, <2>4, FS_EmptySet DEF Typed
<1>4. Tallied
  <2>1. Noted(Dropped, "telemetry") = {} /\ Noted(Billed, "billing") = {}
    BY <1>2 DEF Noted
  <2>2. Reported(Dropped, "telemetry") = 0 /\ Reported(Billed, "billing") = 0
    BY <2>1, ReportedNoted, SumNone
  <2>3. SumFunction(Lengths) = 0
    BY <1>2, LengthsSum, SumNone
  <2>4. Len(input.telemetry) = 0 /\ Len(input.billing) = 0
    BY <1>1 DEF Sources
  <2>5. Cardinality(DOMAIN lines) = 0
    BY <1>2, FS_EmptySet
  <2>6. IsFiniteSet(Noted(Dropped, "telemetry")) /\ IsFiniteSet(Noted(Billed, "billing"))
    BY <2>1, FS_EmptySet
  <2>7. /\ Len(input.telemetry) = Reported(Dropped, "telemetry") + SumFunction(Lengths)
        /\ Len(input.billing) = Cardinality(DOMAIN lines) + Reported(Billed, "billing")
    BY <2>2, <2>3, <2>4, <2>5
  <2> QED BY <2>6, <2>7 DEF Tallied
<1>5. Registering /\ Named /\ Closed
  BY <1>1 DEF Registering, Named, Closed
<1> QED BY <1>3, <1>4, <1>5 DEF ReconcileInv

LEMMA ReconcileInvNext == ReconcileInv /\ [ReconcileNext]_reconcileVars => ReconcileInv'
<1> SUFFICES ASSUME ReconcileInv, [ReconcileNext]_reconcileVars PROVE ReconcileInv'
  OBVIOUS
<1> USE DEF ReconcileInv
<1>1. Typed'
  BY TypedNext
<1>2. Tallied'
  BY <1>1, TalliedNext
<1>3. Registering'
  BY RegisteringNext
<1>4. Named'
  BY NamedNext
<1>5. Closed'
  BY ClosedNext
<1> QED BY <1>1, <1>2, <1>3, <1>4, <1>5

\* The accounts hold at every step of the pipeline: each reading and each
\* billing line read so far is in the result or has been entered as dropped.
THEOREM ReconcileInvariant == ReconcileSpec => []ReconcileInv
BY ReconcileInvInit, ReconcileInvNext, PTL DEF ReconcileSpec

\* The counts add up and nothing is dropped in silence (Accounted), for any
\* extracts, any number of rows, headings, window and order of the rows.
THEOREM NothingUnaccounted == ReconcileSpec => []Accounted
<1>1. ReconcileInv => Accounted
  <2> SUFFICES ASSUME ReconcileInv, stage = "done" PROVE Accounted
    BY DEF Accounted
  <2>1. Typed /\ Tallied /\ Registering /\ Named /\ Closed
    BY DEF ReconcileInv
  <2>2. SumFunction(Lengths) = SumFunction([at \in DOMAIN readings |-> Len(readings[at])])
    BY DEF Lengths
  <2>3. DOMAIN registry = DeviceKeys
    BY <2>1 DEF Registering
  <2> QED BY <2>1, <2>2, <2>3, Zenon DEF Accounted, Tallied, Registering, Named, Closed, Billed
<1> QED BY <1>1, ReconcileInvariant, PTL

-----------------------------------------------------------------------------
(* What a date means                                                       *)

LEMMA MonthLengthIn == \A y, m : MonthLength(y, m) \in 28..31
BY DEF MonthLength

LEMMA MidnightType ==
  ASSUME NEW y \in Nat, NEW m \in Nat, NEW d \in Nat PROVE Midnight(y, m, d) \in Int
<1> DEFINE f == [k \in 1..(m - 1) |-> MonthLength(y, k)]
           days == SumFunction(f)
           start == DaysBefore(y)
<1>1. Summable(f, DOMAIN f)
  <2>1. \A k \in DOMAIN f : f[k] \in Int
    BY MonthLengthIn
  <2>2. IsFiniteSet(1..(m - 1))
    BY FS_Interval
  <2> QED BY <2>1, <2>2 DEF Summable
<1>2. days \in Int
  <2> HIDE DEF f
  <2> QED BY <1>1, SumType DEF SumFunction
<1>3. start \in Int
  BY DEF DaysBefore
<1>4. Midnight(y, m, d) = 1440 * (start + days + d)
  BY DEF Midnight
<1> HIDE DEF start, days
<1> QED BY <1>2, <1>3, <1>4

LEMMA DayType == \A date \in Nat \X Nat \X Nat : Day(date) \in Int
BY MidnightType DEF Day

LEMMA ClockType == ASSUME NEW t \in Dates PROVE Clock(t) \in Int
<1>1. t.at \in Int
  BY DEF Dates
<1> DEFINE late == 60 * ((t.at \div 60) % 10) + (t.at % 60)
<1>2. late \in Int
  <2>1. (t.at \div 60) \in Int /\ (t.at % 60) \in Int
    BY <1>1
  <2>2. ((t.at \div 60) % 10) \in Int
    BY <2>1
  <2> QED BY <2>1, <2>2
<1>3. Clock(t) \in {0, t.at, late}
  BY DEF Clock
<1> HIDE DEF late
<1> QED BY <1>1, <1>2, <1>3

LEMMA OneOrder ==
  /\ Cardinality({}) = 0
  /\ \A order : Cardinality({order}) = 1
  /\ Cardinality({"day", "month"}) = 2
<1>1. \A order : Cardinality({order}) = 1 /\ IsFiniteSet({order})
  BY FS_Singleton
<1>2. Cardinality({"day"} \cup {"month"}) = 2
  <2>1. IsFiniteSet({"day"}) /\ Cardinality({"day"}) = 1 /\ "month" \notin {"day"}
    BY <1>1
  <2>2. Cardinality({"day"} \cup {"month"}) = Cardinality({"day"}) + 1
    BY <2>1, FS_AddElement
  <2> QED BY <2>1, <2>2
<1>3. {"day"} \cup {"month"} = {"day", "month"}
  OBVIOUS
<1> QED BY <1>1, <1>2, <1>3, FS_EmptySet

Refusals == {"missing", "invalid", "ambiguous"}

\* The parser accepts a date, and takes the moment from it, when one moment is
\* what it can mean.
AgreesOn(t, parsed) ==
  \/ /\ parsed.ok = TRUE /\ parsed.how \notin Refusals
     /\ Cardinality(LegalReadings(t)) = 1 /\ parsed.value = Meant(t)
  \/ /\ parsed.ok = FALSE /\ parsed.how \in Refusals
     /\ Cardinality(LegalReadings(t)) # 1

LEMMA Refused ==
  ASSUME NEW t, NEW how \in Refusals, LegalReadings(t) = {} PROVE AgreesOn(t, Bad(how))
<1>1. Cardinality(LegalReadings(t)) # 1
  BY OneOrder
<1> QED BY <1>1 DEF AgreesOn, Bad

LEMMA ReadOneWay ==
  ASSUME NEW t, NEW order \in {"day", "month"}, NEW y, NEW m, NEW d, NEW how, how \notin Refusals,
         LegalReadings(t) = {o \in {order} : ValidDate(y, m, d) /\ Clock(t) # BadTime},
         order = "day" => y = t.y /\ m = t.b /\ d = t.a,
         order = "month" => y = t.y /\ m = t.a /\ d = t.b
  PROVE  AgreesOn(t, DateTime(y, m, d, t, how))
<1>1. CASE ValidDate(y, m, d) /\ Clock(t) # BadTime
  <2>1. LegalReadings(t) = {order}
    BY <1>1
  <2>2. Meant(t) = Midnight(y, m, d) + Clock(t)
    <3>1. CASE order = "day"
      BY <2>1, <3>1 DEF Meant
    <3>2. CASE order = "month"
      BY <2>1, <3>2 DEF Meant
    <3> QED BY <3>1, <3>2
  <2>3. DateTime(y, m, d, t, how) = Good(Midnight(y, m, d) + Clock(t), how)
    BY <1>1 DEF DateTime
  <2>4. Cardinality(LegalReadings(t)) = 1
    BY <2>1, OneOrder
  <2> DEFINE moment == Midnight(y, m, d) + Clock(t)
  <2> HIDE DEF moment
  <2>5. Good(moment, how).ok = TRUE /\ Good(moment, how).value = moment /\ Good(moment, how).how = how
    BY DEF Good
  <2> QED BY <2>2, <2>3, <2>4, <2>5 DEF AgreesOn, moment
<1>2. CASE ~(ValidDate(y, m, d) /\ Clock(t) # BadTime)
  <2>1. LegalReadings(t) = {}
    BY <1>2
  <2>2. DateTime(y, m, d, t, how) = Bad("invalid")
    BY <1>2 DEF DateTime
  <2> QED BY <2>1, <2>2, Refused DEF Refusals
<1> QED BY <1>1, <1>2

\* Neither number of a slash date can be a month and the other a day of it in
\* one order only, unless one of them is above twelve.
LEMMA EitherOrder ==
  ASSUME NEW y, NEW a \in Nat, NEW b \in Nat
  PROVE  /\ a > 12 => ~ValidDate(y, a, b)
         /\ b > 12 => ~ValidDate(y, b, a)
         /\ a <= 12 /\ b <= 12 => (ValidDate(y, a, b) <=> ValidDate(y, b, a))
<1>1. MonthLength(y, a) \in 28..31 /\ MonthLength(y, b) \in 28..31
  BY MonthLengthIn
<1> QED BY <1>1 DEF ValidDate

LEMMA SlashRead == ASSUME NEW t \in Dates, t.shape = "slash" PROVE AgreesOn(t, SlashDate(t))
<1> DEFINE dayFirst == t.a > 12 /\ t.b <= 12
           monthFirst == t.b > 12 /\ t.a <= 12
<1>1. t.a \in Nat /\ t.b \in Nat
  BY DEF Dates
<1>2. /\ "instant" \notin LegalReadings(t) /\ LegalReadings(t) \subseteq {"day", "month"}
      /\ "day" \in LegalReadings(t) <=> ValidDate(t.y, t.b, t.a) /\ Clock(t) # BadTime
      /\ "month" \in LegalReadings(t) <=> ValidDate(t.y, t.a, t.b) /\ Clock(t) # BadTime
  BY DEF LegalReadings
<1>3. /\ t.a > 12 => ~ValidDate(t.y, t.a, t.b)
      /\ t.b > 12 => ~ValidDate(t.y, t.b, t.a)
      /\ t.a <= 12 /\ t.b <= 12 => (ValidDate(t.y, t.a, t.b) <=> ValidDate(t.y, t.b, t.a))
  BY <1>1, EitherOrder
<1>4. CASE dayFirst = monthFirst
  <2>1. ValidDate(t.y, t.a, t.b) <=> ValidDate(t.y, t.b, t.a)
    BY <1>1, <1>3, <1>4
  <2>2. LegalReadings(t) = {} \/ LegalReadings(t) = {"day", "month"}
    BY <1>2, <2>1
  <2>3. Cardinality(LegalReadings(t)) # 1
    BY <2>2, OneOrder
  <2>4. \E how \in Refusals : SlashDate(t) = Bad(how)
    <3> DEFINE either == ValidDate(t.y, t.b, t.a) /\ ValidDate(t.y, t.a, t.b)
    <3> DEFINE first == DateTime(t.y, t.b, t.a, t, "slash")
               second == DateTime(t.y, t.a, t.b, t, "slash")
    <3>3. SlashDate(t) = CASE dayFirst = monthFirst -> Bad(IF either THEN "ambiguous" ELSE "invalid")
                           [] dayFirst -> first [] monthFirst -> second
      BY Zenon DEF SlashDate
    <3>4. dayFirst = FALSE /\ monthFirst = FALSE
      BY <1>1, <1>4
    <3> HIDE DEF either, dayFirst, monthFirst, first, second
    <3>1. SlashDate(t) = Bad(IF either THEN "ambiguous" ELSE "invalid")
      BY <3>3, <3>4
    <3>2. (IF either THEN "ambiguous" ELSE "invalid") \in Refusals
      BY DEF Refusals
    <3> QED BY <3>1, <3>2
  <2> QED BY <2>3, <2>4 DEF AgreesOn, Bad
<1>5. CASE dayFirst /\ ~monthFirst
  <2>1. SlashDate(t) = DateTime(t.y, t.b, t.a, t, "slash")
    BY <1>5 DEF SlashDate
  <2>2. LegalReadings(t) = {o \in {"day"} : ValidDate(t.y, t.b, t.a) /\ Clock(t) # BadTime}
    BY <1>2, <1>3, <1>5
  <2> QED BY <2>1, <2>2, ReadOneWay DEF Refusals
<1>6. CASE ~dayFirst /\ monthFirst
  <2>1. SlashDate(t) = DateTime(t.y, t.a, t.b, t, "slash")
    BY <1>6 DEF SlashDate
  <2>2. LegalReadings(t) = {o \in {"month"} : ValidDate(t.y, t.a, t.b) /\ Clock(t) # BadTime}
    BY <1>2, <1>3, <1>6
  <2> QED BY <2>1, <2>2, ReadOneWay DEF Refusals
<1> QED BY <1>4, <1>5, <1>6

\* A date is accepted, and read as what it means, exactly when it has one
\* reading (parse_datetime), and a reading is a moment.
LEMMA DateRead == ASSUME NEW t \in Dates PROVE AgreesOn(t, parse_datetime(t)) /\ Meant(t) \in Int
<1>1. Meant(t) \in Int
  <2>1. t.at \in Int /\ t.y \in Nat /\ t.a \in Nat /\ t.b \in Nat
    BY DEF Dates
  <2>2. Midnight(t.y, t.b, t.a) \in Int /\ Midnight(t.y, t.a, t.b) \in Int /\ Clock(t) \in Int
    BY <2>1, MidnightType, ClockType
  <2>3. Midnight(t.y, t.b, t.a) + Clock(t) \in Int /\ Midnight(t.y, t.a, t.b) + Clock(t) \in Int
    BY <2>2
  <2> QED BY <2>1, <2>3 DEF Meant
<1>2. CASE t.shape = "missing"
  <2>1. LegalReadings(t) = {} /\ parse_datetime(t) = Bad("missing")
    BY <1>2 DEF LegalReadings, parse_datetime
  <2> QED BY <1>1, <2>1, Refused DEF Refusals
<1>3. CASE t.shape = "epoch"
  <2>1. LegalReadings(t) = {"instant"} /\ parse_datetime(t) = Good(t.at, "epoch")
    BY <1>3 DEF LegalReadings, parse_datetime
  <2>2. Cardinality(LegalReadings(t)) = 1 /\ Meant(t) = t.at
    BY <2>1, OneOrder DEF Meant
  <2> QED BY <1>1, <2>1, <2>2 DEF AgreesOn, Good, Refusals
<1>4. CASE t.shape = "slash"
  <2>1. parse_datetime(t) = SlashDate(t)
    BY <1>4 DEF parse_datetime
  <2> QED BY <1>1, <1>4, <2>1, SlashRead
<1>5. CASE t.shape = "iso"
  <2>1. /\ parse_datetime(t) = DateTime(t.y, t.a, t.b, t, "iso")
        /\ LegalReadings(t) = {o \in {"month"} : ValidDate(t.y, t.a, t.b) /\ Clock(t) # BadTime}
    BY <1>5 DEF LegalReadings, parse_datetime
  <2> QED BY <1>1, <2>1, ReadOneWay DEF Refusals
<1>6. CASE t.shape = "dash" /\ t.at = NoTime
  <2>1. /\ parse_datetime(t) = DateTime(t.y, t.b, t.a, t, "dash")
        /\ LegalReadings(t) = {o \in {"day"} : ValidDate(t.y, t.b, t.a) /\ Clock(t) # BadTime}
    BY <1>6 DEF LegalReadings, parse_datetime
  <2> QED BY <1>1, <2>1, ReadOneWay DEF Refusals
<1>7. CASE t.shape \notin {"missing", "epoch", "slash", "iso", "dash"}
           \/ (t.shape = "dash" /\ t.at # NoTime)
  <2>1. LegalReadings(t) = {} /\ parse_datetime(t) = Bad("invalid")
    BY <1>7 DEF LegalReadings, parse_datetime
  <2> QED BY <1>1, <2>1, Refused DEF Refusals
<1> QED BY <1>2, <1>3, <1>4, <1>5, <1>6, <1>7

-----------------------------------------------------------------------------
(* The devices counted are those whose rows agree                          *)

AfterWindow(date) == date.ok /\ date.value >= Day(Window.last) + 1440

LEMMA ExcludedWhen ==
  ASSUME NEW row
  PROVE  Finalized(row).excluded <=>
           \/ canonical_status(row.status) = ""
           \/ parse_datetime(row.commissioned).how \in Refusals
           \/ AfterWindow(parse_datetime(row.commissioned))
<1> DEFINE cap == parse_number(row.capacity)
           date == parse_datetime(row.commissioned)
           status == canonical_status(row.status)
           late == date.ok /\ date.value >= Day(Window.last) + 1440
           c1 == row.site.name # "" /\ ~row.site.exact
           c2 == status = ""
           c3 == status \notin {"", row.status}
           c4 == cap.how = "missing"
           c5 == cap.how = "invalid"
           c6 == cap.how = "normalised"
           c7 == date.how = "ambiguous"
           c8 == date.how \in {"missing", "invalid"}
           c10 == date.ok /\ ~CanonicalDate(row.commissioned)
           R == {r \in {
             <<"DEVICE.SITE_CANONICALISED", "normalised", c1>>,
             <<"DEVICE.STATUS_UNKNOWN", "excluded", c2>>,
             <<"DEVICE.STATUS_CANONICALISED", "normalised", c3>>,
             <<"DEVICE.CAPACITY_MISSING", "reported", c4>>,
             <<"DEVICE.CAPACITY_INVALID", "reported", c5>>,
             <<"DEVICE.CAPACITY_CANONICALISED", "normalised", c6>>,
             <<"DEVICE.DATE_AMBIGUOUS", "excluded", c7>>,
             <<"DEVICE.DATE_INVALID", "excluded", c8>>,
             <<"DEVICE.DATE_OUT_OF_RANGE", "excluded", late>>,
             <<"DEVICE.DATE_CANONICALISED", "normalised", c10>>} : r[3]}
<1>1. Rules(row) = R
  BY DEF Rules
<1>2. Finalized(row).excluded <=> \E r \in R : r[1] \in Disqualifying
  <2> DEFINE broken == \E r \in Rules(row) : r[1] \in Disqualifying
  <2>1. Finalized(row) = [status |-> canonical_status(row.status), capacity |-> cap.value,
                          capacity_valid |-> cap.ok, excluded |-> broken]
    BY DEF Finalized
  <2> HIDE DEF broken
  <2>2. Finalized(row).excluded = broken
    BY <2>1
  <2>3. Finalized(row).excluded <=> broken
    BY <2>2
  <2> HIDE DEF R
  <2>4. broken <=> \E r \in R : r[1] \in Disqualifying
    BY <1>1 DEF broken
  <2> QED BY <2>3, <2>4
<1>3. date.how \in Refusals <=> c7 \/ c8
  BY DEF Refusals
<1> HIDE DEF c1, c2, c3, c4, c5, c6, c7, c8, late, c10
<1>4. (\E r \in R : r[1] \in Disqualifying) <=> c2 \/ c7 \/ c8 \/ late
  <2>1. ASSUME NEW r \in R, r[1] \in Disqualifying PROVE c2 \/ c7 \/ c8 \/ late
    <3>1. r[3] /\ \/ r = <<"DEVICE.STATUS_UNKNOWN", "excluded", c2>>
                  \/ r = <<"DEVICE.DATE_AMBIGUOUS", "excluded", c7>>
                  \/ r = <<"DEVICE.DATE_INVALID", "excluded", c8>>
                  \/ r = <<"DEVICE.DATE_OUT_OF_RANGE", "excluded", late>>
      BY <2>1 DEF Disqualifying
    <3> QED BY <3>1
  <2>2. c2 => <<"DEVICE.STATUS_UNKNOWN", "excluded", c2>> \in R
    OBVIOUS
  <2>3. c7 => <<"DEVICE.DATE_AMBIGUOUS", "excluded", c7>> \in R
    OBVIOUS
  <2>4. c8 => <<"DEVICE.DATE_INVALID", "excluded", c8>> \in R
    OBVIOUS
  <2>5. late => <<"DEVICE.DATE_OUT_OF_RANGE", "excluded", late>> \in R
    OBVIOUS
  <2> HIDE DEF R
  <2>6. \A name, kind, holds : name \in Disqualifying /\ <<name, kind, holds>> \in R
          => \E r \in R : r[1] \in Disqualifying
    OBVIOUS
  <2>7. {"DEVICE.STATUS_UNKNOWN", "DEVICE.DATE_AMBIGUOUS", "DEVICE.DATE_INVALID",
         "DEVICE.DATE_OUT_OF_RANGE"} \subseteq Disqualifying
    BY DEF Disqualifying
  <2> QED BY <2>1, <2>2, <2>3, <2>4, <2>5, <2>6, <2>7
<1>5. c2 <=> canonical_status(row.status) = ""
  BY DEF c2
<1>6. late <=> AfterWindow(date)
  BY DEF late, AfterWindow
<1> HIDE DEF R, date
<1>7. Finalized(row).excluded <=>
        canonical_status(row.status) = "" \/ date.how \in Refusals \/ AfterWindow(date)
  BY <1>2, <1>3, <1>4, <1>5, <1>6
<1> QED BY <1>7 DEF date

\* A row that alone would be counted is a definite one.
LEMMA DefiniteRow ==
  ASSUME NEW row \in DeviceRows
  PROVE  /\ Definite(row) <=>
              canonical_status(row.status) = "active" /\ ~Finalized(row).excluded
         /\ Definite(row) <=> /\ canonical_status(row.status) = "active"
                              /\ parse_datetime(row.commissioned).ok = TRUE
                              /\ ~AfterWindow(parse_datetime(row.commissioned))
         /\ Definite(row) => parse_datetime(row.commissioned).value = Meant(row.commissioned)
<1> DEFINE date == parse_datetime(row.commissioned)
           moment == Meant(row.commissioned)
           end == Day(Window.last) + 1440
<1>1. row.commissioned \in Dates
  BY ReconcileAssumption
<1>2. AgreesOn(row.commissioned, date) /\ moment \in Int
  BY <1>1, DateRead
<1>3. end \in Int
  BY ReconcileAssumption, DayType
<1>4. Finalized(row).excluded <=>
               \/ canonical_status(row.status) = ""
               \/ date.how \in Refusals
               \/ AfterWindow(date)
  BY ExcludedWhen, Zenon
<1>5. Definite(row) <=> /\ canonical_status(row.status) = "active"
                        /\ Cardinality(LegalReadings(row.commissioned)) = 1
                        /\ moment < end
  BY DEF Definite
<1>8. AfterWindow(date) <=> date.ok /\ date.value >= end
  BY DEF AfterWindow
<1> HIDE DEF date, moment, end
<1>6. CASE /\ date.ok = TRUE /\ date.how \notin Refusals
           /\ Cardinality(LegalReadings(row.commissioned)) = 1 /\ date.value = moment
  <2>1. AfterWindow(date) <=> ~(moment < end)
    BY <1>2, <1>3, <1>6, <1>8
  <2> QED BY <1>4, <1>5, <1>6, <2>1 DEF date, moment
<1>7. CASE /\ date.ok = FALSE /\ date.how \in Refusals
           /\ Cardinality(LegalReadings(row.commissioned)) # 1
  BY <1>4, <1>5, <1>7 DEF date, moment
<1> QED BY <1>2, <1>6, <1>7 DEF AgreesOn, moment

\* With one definite row, the others are definite and say the same as it just
\* when their fingerprints are the same.
LEMMA SameFingerprint ==
  ASSUME NEW one \in DeviceRows, NEW other \in DeviceRows, Definite(one)
  PROVE  Fingerprint(other) = Fingerprint(one)
           <=> Definite(other) /\ Says(other) = Says(one)
<1> DEFINE d1 == parse_datetime(one.commissioned)
           d2 == parse_datetime(other.commissioned)
           n1 == parse_number(one.capacity)
           n2 == parse_number(other.capacity)
           s1 == canonical_status(one.status)
           s2 == canonical_status(other.status)
           m1 == Meant(one.commissioned)
           m2 == Meant(other.commissioned)
<1>1. s1 = "active" /\ d1.ok = TRUE /\ ~AfterWindow(d1) /\ d1.value = m1
  BY DefiniteRow
<1>2. /\ Definite(other) <=> s2 = "active" /\ d2.ok = TRUE /\ ~AfterWindow(d2)
      /\ Definite(other) => d2.value = m2
  BY DefiniteRow
<1>3. d1.ok = d2.ok /\ d1.value = d2.value => (AfterWindow(d1) <=> AfterWindow(d2))
  BY DEF AfterWindow
<1>4. /\ Fingerprint(one) = <<one.site.name, n1.ok, n1.value, d1.ok, d1.value, s1>>
      /\ Fingerprint(other) = <<other.site.name, n2.ok, n2.value, d2.ok, d2.value, s2>>
      /\ Says(one) = <<one.site.name, n1.ok, n1.value, m1>>
      /\ Says(other) = <<other.site.name, n2.ok, n2.value, m2>>
  BY DEF Fingerprint, Says
<1> HIDE DEF d1, d2, n1, n2, s1, s2, m1, m2
<1>5. Fingerprint(other) = Fingerprint(one) <=>
        /\ other.site.name = one.site.name /\ n2.ok = n1.ok /\ n2.value = n1.value
        /\ d2.ok = d1.ok /\ d2.value = d1.value /\ s2 = s1
  BY <1>4
<1>6. Says(other) = Says(one) <=>
        /\ other.site.name = one.site.name /\ n2.ok = n1.ok /\ n2.value = n1.value /\ m2 = m1
  BY <1>4
<1>7. ASSUME Fingerprint(other) = Fingerprint(one)
      PROVE  Definite(other) /\ Says(other) = Says(one)
  <2>1. Definite(other)
    BY <1>1, <1>2, <1>3, <1>5, <1>7
  <2>2. m2 = m1
    BY <1>1, <1>2, <1>5, <1>7, <2>1
  <2> QED BY <1>5, <1>6, <1>7, <2>1, <2>2
<1>8. ASSUME Definite(other), Says(other) = Says(one)
      PROVE  Fingerprint(other) = Fingerprint(one)
  <2>1. d2.value = d1.value /\ d2.ok = d1.ok /\ s2 = s1
    BY <1>1, <1>2, <1>6, <1>8
  <2> QED BY <1>5, <1>6, <1>8, <2>1
<1> QED BY <1>7, <1>8

LEMMA CountedAgree ==
  ASSUME Typed, registry = [key \in DeviceKeys |-> Registered(key)], NEW k \in DeviceKeys
  PROVE  k \in Counted <=>
           /\ \A i \in RecordsOf(k) : Definite(input.devices[i])
           /\ Cardinality({Says(input.devices[i]) : i \in RecordsOf(k)}) = 1
<1> DEFINE first == Min(RecordsOf(k))
           row(i) == input.devices[i]
           all == {Says(input.devices[i]) : i \in RecordsOf(k)}
<1>1. first \in RecordsOf(k)
  BY SurvivorIn
<1>2. \A i \in RecordsOf(k) : row(i) \in DeviceRows
  BY DEF Typed, RecordsOf
<1>3. Survivor(k) = row(first)
  BY DEF Survivor
<1>4. row(first) \in DeviceRows
  BY <1>1, <1>2
<1>5. k \in Counted <=> Identical(k) /\ Definite(row(first))
  <2>1. k \in Counted <=> Registered(k).status = "active" /\ ~Registered(k).excluded
    BY DEF Counted
  <2>2. CASE Identical(k)
    <3>1. Registered(k) = Finalized(row(first))
      BY <1>3, <2>2 DEF Registered
    <3>2. Finalized(row(first)).status = canonical_status(row(first).status)
      BY DEF Finalized
    <3> QED BY <1>4, <2>1, <2>2, <3>1, <3>2, DefiniteRow
  <2>3. CASE ~Identical(k)
    BY <2>1, <2>3 DEF Registered, Excluded
  <2> QED BY <2>2, <2>3
<1>6. Identical(k) <=> \A i \in RecordsOf(k) : Fingerprint(row(i)) = Fingerprint(row(first))
  BY <1>3 DEF Identical
<1>7. IsFiniteSet(all)
  <2> DEFINE f == [i \in RecordsOf(k) |-> Says(input.devices[i])]
  <2>1. IsFiniteSet(RecordsOf(k))
    BY RowsFinite, FS_Subset DEF RecordsOf
  <2>2. f \in Surjection(RecordsOf(k), all)
    BY DEF Surjection
  <2> HIDE DEF f, all
  <2> QED BY <2>1, <2>2, FS_Surjection
<1>8. Says(row(first)) \in all /\ \A i \in RecordsOf(k) : Says(row(i)) \in all
  BY <1>1
<1>9. (\A i \in RecordsOf(k) : Says(row(i)) = Says(row(first)))
        <=> all = {Says(row(first))}
  BY <1>1
<1>10. Cardinality(all) = 1 <=> all = {Says(row(first))}
  <2> HIDE DEF row, all
  <2>1. Cardinality(all) = 1 => \E x : all = {x}
    BY <1>7, FS_Singleton
  <2>2. Cardinality({Says(row(first))}) = 1
    BY FS_Singleton
  <2> QED BY <1>8, <2>1, <2>2
<1>11. ASSUME Definite(row(first)), NEW i \in RecordsOf(k)
       PROVE  Fingerprint(row(i)) = Fingerprint(row(first))
                <=> Definite(row(i)) /\ Says(row(i)) = Says(row(first))
  BY <1>2, <1>4, <1>11, SameFingerprint
<1>12. (\A i \in RecordsOf(k) : Definite(input.devices[i])) <=> \A i \in RecordsOf(k) : Definite(row(i))
  OBVIOUS
<1> HIDE DEF row, first, all
<1>13. CASE Definite(row(first))
  BY <1>5, <1>6, <1>9, <1>10, <1>11, <1>12, <1>13 DEF all
<1>14. CASE ~Definite(row(first))
  BY <1>1, <1>5, <1>12, <1>14
<1> QED BY <1>13, <1>14

\* Which devices are counted depends on what their rows say and not on their
\* order, their spelling or which of them survives (CountedByContent), for any
\* register.
THEOREM CountsByContent == ReconcileSpec => []CountedByContent
<1>1. ReconcileInv => CountedByContent
  <2> SUFFICES ASSUME ReconcileInv, stage = "done" PROVE CountedByContent
    BY DEF CountedByContent
  <2>1. Typed /\ registry = [key \in DeviceKeys |-> Registered(key)] /\ summary.counted = Counted
    BY DEF ReconcileInv, Registering, Closed
  <2>2. \A k \in DeviceKeys : k \in Counted <=>
           /\ \A i \in RecordsOf(k) : Definite(input.devices[i])
           /\ Cardinality({Says(input.devices[i]) : i \in RecordsOf(k)}) = 1
    BY <2>1, CountedAgree
  <2>3. Counted \subseteq DeviceKeys
    BY <2>1 DEF Counted
  <2>4. Counted = {k \in DeviceKeys :
                     /\ \A i \in RecordsOf(k) : Definite(input.devices[i])
                     /\ Cardinality({Says(input.devices[i]) : i \in RecordsOf(k)}) = 1}
    BY <2>2, <2>3
  <2> QED BY <2>1, <2>4 DEF CountedByContent
<1> QED BY <1>1, ReconcileInvariant, PTL

=============================================================================
