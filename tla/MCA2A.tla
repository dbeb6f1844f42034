------------------------------- MODULE MCA2A -------------------------------
(* A2A for TLC: ids as the protocol asks for them.                         *)
EXTENDS A2A

OwnId == [c \in Conns |-> c]   \* unique
=============================================================================
