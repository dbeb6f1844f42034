------------------------------ MODULE MCDream ------------------------------
(* Dream for TLC.                                                          *)
EXTENDS Dream

SomePriority == [t \in Tasks |-> 2 - t]   \* the later name goes first

\* skill_maintenance is handled as doc_sync is, and test_sanity but for the
\* budget.
OneSingle == <<"doc_sync">>
=============================================================================
