--------------------------- MODULE QueryContract ---------------------------
(***************************************************************************)
(* What an agent promises to those who send it queries, with the server's  *)
(* threads, the dictionary of responses and the polling left out: queries  *)
(* are worked on one at a time in the order in which they were queued,     *)
(* each at most once, and a client is told the outcome at most once and    *)
(* never before there is one.  Whether a client is told at all depends on  *)
(* its staying, on nobody redirecting the agent and on the process going   *)
(* on, so nothing is promised about that here.                             *)
(***************************************************************************)
EXTENDS Sequences

CONSTANTS
  Callers,   \* those who may send one query each
  Terminal,  \* the user, whose lines share the queue and need no answer
  None       \* no one

VARIABLES
  queue,     \* whose message is waiting, oldest first
  job,       \* whose message is being worked on
  stage      \* how far the query of each caller has come

vars == <<queue, job, stage>>

Init == /\ queue = <<>>
        /\ job = None
        /\ stage = [c \in Callers |-> "new"]

Ask(c) == /\ stage[c] = "new"
          /\ stage' = [stage EXCEPT ![c] = "queued"]
          /\ queue' = Append(queue, c)
          /\ UNCHANGED job

Type == /\ queue' = Append(queue, Terminal)
        /\ UNCHANGED <<job, stage>>

\* The oldest message is taken up, or dropped because it says nothing.
Begin == /\ job = None /\ queue # <<>>
         /\ job' \in {Head(queue), None}
         /\ queue' = Tail(queue)
         /\ UNCHANGED stage

Finish == /\ job \in Callers /\ stage[job] = "queued"
          /\ stage' = [stage EXCEPT ![job] = "worked"]
          /\ UNCHANGED <<queue, job>>

Release == /\ job # None
           /\ job \in Callers => stage[job] # "queued"
           /\ job' = None
           /\ UNCHANGED <<queue, stage>>

Tell(c) == /\ stage[c] = "worked"
           /\ stage' = [stage EXCEPT ![c] = "told"]
           /\ UNCHANGED <<queue, job>>

Next == \/ Type \/ Begin \/ Finish \/ Release
        \/ \E c \in Callers : Ask(c) \/ Tell(c)

Spec == Init /\ [][Next]_vars
=============================================================================
