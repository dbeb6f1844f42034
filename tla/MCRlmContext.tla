---------------------------- MODULE MCRlmContext ----------------------------
(* RlmContext for TLC: who may put what on the control queue.              *)
EXTENDS RlmContext

\* "summarise" injects a text too; "stop" and "exit" do not touch the context.
SomeCommands == {"inject", "redirect"}
=============================================================================
