-------------------------------- MODULE A2A --------------------------------
(***************************************************************************)
(* The A2A server of one agent: a thread per connection that queues the    *)
(* query it reads and then polls a dictionary for the response, and the    *)
(* main thread that takes messages off the same queue as the terminal's    *)
(* lines, works on them one at a time and leaves the response in the       *)
(* dictionary.  The two sides share nothing but the queue and the          *)
(* dictionary, without a lock; each operation on them is atomic.           *)
(*                                                                         *)
(* The work on a message is a turn of RlmLoop: it ends, with an answer or  *)
(* none (both make a response), or raises, and may be redirected.  The     *)
(* stream chunks are left out: nothing ever emits one.  The current        *)
(* request id is left out too: it is written and never read.               *)
(***************************************************************************)
EXTENDS Integers, FiniteSets, Sequences

CONSTANTS
  Conns,        \* connections, of one client and one query each
  Terminal,     \* who a line typed at the terminal is about
  None,         \* no one
  IdOf,         \* the id a client puts on its query
  MaxHandlers,  \* handler threads at a time (10)
  MaxTyped      \* bound: lines typed at the terminal

ASSUME ServerAssumption ==
  /\ Terminal \notin Conns /\ None \notin Conns /\ None # Terminal
  /\ MaxHandlers \in Nat /\ MaxTyped \in Nat

\* "Client sends query with unique id" (query_agent makes a uuid4).
UniqueIds == \A c, d \in Conns : IdOf[c] = IdOf[d] => c = d

VARIABLES
  main,       \* where the main thread is
  job,        \* whose message it works on
  inbox,      \* the input queue
  responses,  \* agent._pending_a2a_responses: a dictionary from ids
  thread,     \* where the handler thread of each connection is
  client,     \* what the client at the other end does
  got,        \* the final message it received
  fate,       \* how far its query has come
  dropped,    \* whose query was skipped or whose response was cleared
  typed       \* lines typed so far

mainVars   == <<main, job>>
clientVars == <<client, got>>
vars == <<mainVars, inbox, responses, thread, clientVars, fate, dropped, typed>>

-----------------------------------------------------------------------------
Ids == {IdOf[c] : c \in Conns}
Message  == [about : Conns, blank : BOOLEAN] \cup [about : {Terminal}, blank : {FALSE}]
Response == [about : Conns, type : {"response", "error"}]
NoResponse == [about |-> None, type |-> "none"]

\* self.running, which stop() clears before it waits for the handlers.
Running == main \notin {"stopping", "gone"}

TypeOK ==
  /\ main \in {"idle", "work", "store", "stopping", "gone"}
  /\ job \in Conns \cup {Terminal, None}
  /\ main = "idle" => job = None
  /\ main \in {"work", "store"} => job # None
  /\ inbox \in Seq(Message)
  /\ DOMAIN responses \subseteq Ids
  /\ responses \in [DOMAIN responses -> Response]
  /\ thread \in [Conns -> {"none", "recv", "poll", "pop", "done"}]
  /\ client \in [Conns -> {"away", "waiting", "told", "cut", "left"}]
  /\ got \in [Conns -> Response \cup {NoResponse}]
  /\ fate \in [Conns -> {"new", "queued", "worked"}]
  /\ dropped \subseteq Conns
  /\ typed \in Nat

Init ==
  /\ main = "idle" /\ job = None /\ inbox = <<>> /\ responses = <<>>
  /\ thread = [c \in Conns |-> "none"]
  /\ client = [c \in Conns |-> "away"]
  /\ got = [c \in Conns |-> NoResponse]
  /\ fate = [c \in Conns |-> "new"]
  /\ dropped = {} /\ typed = 0

\* Item assignment and removal, as the dictionary does them.
Put(map, key, value) ==
  [k \in DOMAIN map \cup {key} |-> IF k = key THEN value ELSE map[k]]

\* Mutant: the dictionary is cleared where one item should go.
Cleared(map, key) == <<>>

Without(map, key) == [k \in DOMAIN map \ {key} |-> map[k]]

-----------------------------------------------------------------------------
(* Clients                                                                 *)

\* The client is killed, or gives up: its end of the socket is closed.
Leave(c) ==
  /\ client[c] = "waiting"
  /\ client' = [client EXCEPT ![c] = "left"]
  /\ UNCHANGED <<mainVars, inbox, responses, thread, got, fate, dropped, typed>>

-----------------------------------------------------------------------------
(* The accept thread and the handler threads                               *)

Handling == {c \in Conns : thread[c] \notin {"none", "done"}}

\* The handler's finally clause: the socket is closed, the slot is free.
Close(c) ==
  /\ thread' = [thread EXCEPT ![c] = "done"]
  /\ client' = [client EXCEPT ![c] = IF @ = "waiting" THEN "cut" ELSE @]

\* A client connects and is accepted: it gets a handler thread, unless it is
\* another user's or all slots are taken, and its socket is closed at once.
Accept(c, allowed) ==
  /\ Running /\ client[c] = "away"
  /\ IF allowed /\ Cardinality(Handling) < MaxHandlers
     THEN /\ client' = [client EXCEPT ![c] = "waiting"]
          /\ thread' = [thread EXCEPT ![c] = "recv"]
     ELSE /\ client' = [client EXCEPT ![c] = "cut"]
          /\ thread' = [thread EXCEPT ![c] = "done"]
  /\ UNCHANGED <<mainVars, inbox, responses, got, fate, dropped, typed>>

\* Nothing comes in 30 s, or no JSON, or a query that is not a string, or a
\* request for the card or the status, which is answered here and now.
ServeAtOnce(c) ==
  /\ thread[c] = "recv"
  /\ Close(c)
  /\ UNCHANGED <<mainVars, inbox, responses, got, fate, dropped, typed>>

\* A query comes, is acknowledged and put on the input queue, unless the
\* client has left, so that the acknowledgement fails, or the server stops.
Enqueue(c, blank) ==
  /\ thread[c] = "recv"
  /\ IF Running /\ client[c] # "left"
     THEN /\ inbox' = Append(inbox, [about |-> c, blank |-> blank])
          /\ fate' = [fate EXCEPT ![c] = "queued"]
          /\ thread' = [thread EXCEPT ![c] = "poll"]
          /\ UNCHANGED client
     ELSE /\ Close(c)
          /\ UNCHANGED <<inbox, fate>>
  /\ UNCHANGED <<mainVars, responses, got, dropped, typed>>

\* One round of polling: stop with the server, go on to pop a response that
\* is there, or notice with a heartbeat that the client has left.
Poll(c) ==
  /\ thread[c] = "poll"
  /\ \/ ~Running /\ Close(c)
     \/ /\ Running /\ IdOf[c] \in DOMAIN responses
        /\ thread' = [thread EXCEPT ![c] = "pop"]
        /\ UNCHANGED client
     \/ /\ Running /\ IdOf[c] \notin DOMAIN responses /\ client[c] = "left"
        /\ Close(c)
  /\ UNCHANGED <<mainVars, inbox, responses, got, fate, dropped, typed>>

\* The response is taken off the dictionary and sent; when it is gone again,
\* the KeyError ends the thread and the client finds its socket closed.
Pop(c) ==
  /\ thread[c] = "pop"
  /\ IF IdOf[c] \in DOMAIN responses
     THEN /\ responses' = Without(responses, IdOf[c])
          /\ thread' = [thread EXCEPT ![c] = "done"]
          /\ IF client[c] = "waiting"
             THEN /\ got' = [got EXCEPT ![c] = responses[IdOf[c]]]
                  /\ client' = [client EXCEPT ![c] = "told"]
             ELSE UNCHANGED clientVars
     ELSE /\ Close(c)
          /\ UNCHANGED <<responses, got>>
  /\ UNCHANGED <<mainVars, inbox, fate, dropped, typed>>

-----------------------------------------------------------------------------
(* The main thread                                                         *)

\* A line typed at the terminal goes on the same queue.
Type ==
  /\ Running /\ typed < MaxTyped
  /\ typed' = typed + 1
  /\ inbox' = Append(inbox, [about |-> Terminal, blank |-> FALSE])
  /\ UNCHANGED <<mainVars, responses, thread, clientVars, fate, dropped>>

\* Mutant: the newest message first.
TakeNewest ==
  /\ main = "idle" /\ inbox # <<>>
  /\ inbox' = SubSeq(inbox, 1, Len(inbox) - 1)
  /\ job' = inbox[Len(inbox)].about
  /\ main' = "work"
  /\ UNCHANGED <<responses, thread, clientVars, fate, dropped, typed>>

\* run() takes the oldest message and skips it when it is only whitespace.
Take ==
  /\ main = "idle" /\ inbox # <<>>
  /\ inbox' = Tail(inbox)
  /\ IF Head(inbox).blank
     THEN /\ dropped' = dropped \cup {Head(inbox).about}
          /\ UNCHANGED mainVars
     ELSE /\ job' = Head(inbox).about
          /\ main' = "work"
          /\ UNCHANGED dropped
  /\ UNCHANGED <<responses, thread, clientVars, fate, typed>>

\* _process_input returns, with an answer or None: run() makes a response of
\* either, or of what was printed meanwhile.
Return ==
  /\ main = "work"
  /\ main' = "store"
  /\ fate' = IF job = Terminal THEN fate ELSE [fate EXCEPT ![job] = "worked"]
  /\ UNCHANGED <<job, inbox, responses, thread, clientVars, dropped, typed>>

\* Mutant: the exception leaves run()'s iteration before anything is stored.
RaiseUnanswered ==
  /\ main = "work"
  /\ main' = "idle" /\ job' = None
  /\ fate' = IF job = Terminal THEN fate ELSE [fate EXCEPT ![job] = "worked"]
  /\ UNCHANGED <<inbox, responses, thread, clientVars, dropped, typed>>

\* The turn raises: _process_input stores an error under the id, then
\* returns None to run(), which goes on as with any other result.
Raise ==
  /\ main = "work"
  /\ main' = "store"
  /\ IF job = Terminal
     THEN UNCHANGED <<fate, responses>>
     ELSE /\ fate' = [fate EXCEPT ![job] = "worked"]
          /\ responses' = Put(responses, IdOf[job], [about |-> job, type |-> "error"])
  /\ UNCHANGED <<job, inbox, thread, clientVars, dropped, typed>>

\* Mutant: the response goes to whoever polls.
KeyOfPoller(c) ==
  IF \E d \in Conns : thread[d] = "poll"
  THEN IdOf[CHOOSE d \in Conns : thread[d] = "poll"] ELSE IdOf[c]

\* The key of a response is the id the message came with.
KeyOf(c) == IdOf[c]

\* run() stores the response, over an error that was not taken yet.
Store ==
  /\ main = "store"
  /\ main' = "idle" /\ job' = None
  /\ responses' = IF job = Terminal THEN responses
                  ELSE Put(responses, KeyOf(job), [about |-> job, type |-> "response"])
  /\ UNCHANGED <<inbox, thread, clientVars, fate, dropped, typed>>

\* A redirect during the turn: clear_stale_state empties the dictionary.
Redirect ==
  /\ main = "work"
  /\ dropped' = dropped \cup {responses[i].about : i \in DOMAIN responses}
  /\ responses' = <<>>
  /\ UNCHANGED <<mainVars, inbox, thread, clientVars, fate, typed>>

\* The run loop ends, or a second Ctrl+C or an exception of a command leaves
\* it anywhere: stop() is called and the accept loop and pollers give up.
Stop ==
  /\ Running
  /\ main' = "stopping"
  /\ UNCHANGED <<job, inbox, responses, thread, clientVars, fate, dropped, typed>>

\* stop() waits for the handlers, not for ever: the process exits, its
\* daemon threads die and the kernel closes their sockets.
Die ==
  /\ main = "stopping"
  /\ main' = "gone"
  /\ thread' = [c \in Conns |-> IF thread[c] = "none" THEN "none" ELSE "done"]
  /\ client' = [c \in Conns |-> IF client[c] = "waiting" THEN "cut" ELSE client[c]]
  /\ UNCHANGED <<job, inbox, responses, got, fate, dropped, typed>>

-----------------------------------------------------------------------------
MainStep == Take \/ Return \/ Raise \/ Store \/ Die

HandlerStep(c) ==
  \/ ServeAtOnce(c) \/ Poll(c) \/ Pop(c)
  \/ \E blank \in BOOLEAN : Enqueue(c, blank)

Next ==
  \/ MainStep \/ Type \/ Redirect \/ Stop
  \/ \E c \in Conns : \/ Leave(c) \/ HandlerStep(c)
                      \/ \E allowed \in BOOLEAN : Accept(c, allowed)

Spec == Init /\ [][Next]_vars

\* Turns end (RlmLoop!TurnTerminates) and a handler thread that is not
\* waiting for anything runs.  No one is obliged to connect or to type, nor
\* the accept thread to be quick.
FairSpec ==
  /\ Spec
  /\ WF_vars(MainStep)
  /\ \A c \in Conns : WF_vars(HandlerStep(c))

-----------------------------------------------------------------------------
(* Properties                                                              *)

\* A client is only ever told the outcome of its own query.
OwnResponse == \A c \in Conns : got[c] # NoResponse => got[c].about = c

\* No handler polls in vain: while one waits, its query is queued, worked on
\* or answered in the dictionary, except where the message was blank or a
\* redirect cleared the response.
Awaited(c) ==
  \/ \E i \in 1..Len(inbox) : inbox[i].about = c
  \/ job = c
  \/ IdOf[c] \in DOMAIN responses

NoVainPolling ==
  Running => \A c \in Conns : thread[c] \in {"poll", "pop"} => Awaited(c) \/ c \in dropped

\* Every handler that polls comes to an end, with the same exceptions.
PollingEnds ==
  \A c \in Conns : thread[c] = "poll" ~> thread[c] = "done" \/ c \in dropped

\* Queries are worked on in order, once each, and answered after that.
Contract == INSTANCE QueryContract WITH
  Callers <- Conns,
  queue <- [i \in 1..Len(inbox) |-> inbox[i].about],
  stage <- [c \in Conns |-> IF got[c] # NoResponse THEN "told" ELSE fate[c]]
KeepsQueryContract == Contract!Spec
=============================================================================
