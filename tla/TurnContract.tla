---------------------------- MODULE TurnContract ----------------------------
(***************************************************************************)
(* What one TauRLM agent promises to whoever hands it a request, with the  *)
(* REPL, the counters, the steering queue and the nesting of Markdown      *)
(* segments left out.  A request appends a user message and makes the      *)
(* agent busy; the agent works; the turn ends, exactly once, with an       *)
(* assistant message at the end of the context, so that the next request   *)
(* may be appended (the precondition TauErgon.invoke states).  A second    *)
(* Ctrl+C may kill the process at any moment, in the middle of a turn too. *)
(***************************************************************************)

VARIABLES
  phase,   \* "idle", "busy" or "gone"
  tail     \* role of the last message of the context

vars == <<phase, tail>>

Roles == {"system", "user", "assistant"}

TypeOK == phase \in {"idle", "busy", "gone"} /\ tail \in Roles

Init == phase = "idle" /\ tail = "system"

\* A request arrives: only between turns, never on top of a user message.
Begin == /\ phase = "idle"
         /\ tail # "user"
         /\ phase' = "busy"
         /\ tail' = "user"

\* Anything the agent does inside a turn.
Work == /\ phase = "busy"
        /\ phase' = "busy"
        /\ tail' \in {"user", "assistant"}

\* The turn ends and leaves the context closed.
End == /\ phase = "busy"
       /\ phase' = "idle"
       /\ tail' = "assistant"

\* An orderly exit closes the context; it starts between turns.
Leave == /\ phase = "idle"
         /\ phase' = "gone"
         /\ tail' = "assistant"

\* The second Ctrl+C: the process goes without closing anything.
Kill == /\ phase # "gone"
        /\ phase' = "gone"
        /\ UNCHANGED tail

Next == Begin \/ Work \/ End \/ Leave \/ Kill

Spec == Init /\ [][Next]_vars /\ WF_vars(End)
=============================================================================
