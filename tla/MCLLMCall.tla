----------------------------- MODULE MCLLMCall -----------------------------
(* LLMCall for TLC: enough retries for every branch of the recovery.       *)
EXTENDS LLMCall

Retries == [job \in Jobs |-> IF job = "main" THEN 3 ELSE 1]

\* A request the guard can cut, a large feedback with an image, and an
\* injected message.
MCRequests == {User("plain", 5, 0), User("repl", 7, 1), User("inject", 1, 0)}
=============================================================================
