----------------------------- MODULE MCRlmLoop -----------------------------
(* RlmLoop for TLC: who may put what on the control queue.                 *)
EXTENDS RlmLoop

AnyCommand == CommandTypes
OnlyStop   == {"stop"}
=============================================================================
