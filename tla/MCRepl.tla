------------------------------- MODULE MCRepl -------------------------------
(* Small instances of Reply and Kernel for TLC: the repair of a reply and  *)
(* the run of its blocks share no variable, so that each is explored while *)
(* the other has not begun, the repair before any module is loaded.        *)
EXTENDS Kernel, Reply

MCBlocks == {[language |-> "python", code |-> "runs"], [language |-> "bash", code |-> "runs"],
             [language |-> "python", code |-> "bad magic"], [language |-> "python", code |-> "empty"]}

MCAlphabet == {Open("at", "python"), Close("at", "python"), Open("at", "bash"),
               Open("html", "python"), Close("html", "python"),
               Tag("open", "tool_call", "python"), Tag("close", "tool_call", "python"),
               Tag("open", "function", "bash"),
               Fused("python"), Bare("python", Text("code")),
               Text("code"), Text("quote"), Blank}

ReplInit == Init /\ ReplyInit

Repairs == ReplyNext /\ Init /\ (\A m \in Modules : loaded[m] = 0) /\ UNCHANGED vars
Runs == Next /\ ReplyInit /\ UNCHANGED replyVars

ReplSpec == ReplInit /\ [][Repairs \/ Runs]_<<vars, replyVars>>
=============================================================================
