---------------------------- MODULE ModelHealth ----------------------------
(***************************************************************************)
(* The circuit breaker of ModelHealthMonitor.  Its status is a record of   *)
(* the circuit and the two counters of consecutive outcomes; every method  *)
(* holds the monitor's lock, so each is one function of that record.  The  *)
(* totals, the time stamps and the dashboard file are left out: nothing    *)
(* reads them back.  What the monitor says is advice, see LLMCall.         *)
(***************************************************************************)
EXTENDS Integers

CONSTANTS
  FailureThreshold,   \* HealthMonitorConfig.failure_threshold (5)
  SuccessThreshold    \* HealthMonitorConfig.success_threshold (3)

ASSUME BreakerAssumption ==
  FailureThreshold \in Nat \ {0} /\ SuccessThreshold \in Nat \ {0}

HealthStatus ==
  [circuit : {"closed", "open", "half_open"}, failures : Nat, successes : Nat]

FreshHealth == [circuit |-> "closed", failures |-> 0, successes |-> 0]

\* is_healthy(): a circuit that has been open for the recovery timeout is
\* half opened by the question.  elapsed says whether it has.
Asked(status, elapsed) ==
  IF status.circuit = "open" /\ elapsed
  THEN [status EXCEPT !.circuit = "half_open", !.successes = 0]
  ELSE status

\* The answer, as read from the status after the question.
Healthy(status) == status.circuit # "open"

\* Mutant: the failures of the past are kept.
SuccessKeepsFailures(status) ==
  LET successes == status.successes + 1
      closes == status.circuit = "half_open" /\ successes >= SuccessThreshold
  IN  [circuit |-> IF closes THEN "closed" ELSE status.circuit,
       failures |-> status.failures, successes |-> successes]

RecordSuccess(status) ==
  LET successes == status.successes + 1
      closes == status.circuit = "half_open" /\ successes >= SuccessThreshold
  IN  [circuit |-> IF closes THEN "closed" ELSE status.circuit,
       failures |-> 0, successes |-> successes]

RecordFailure(status) ==
  LET failures == status.failures + 1
      opens == status.circuit # "open" /\ failures >= FailureThreshold
  IN  [circuit |-> IF opens THEN "open" ELSE status.circuit,
       failures |-> failures, successes |-> 0]

=============================================================================
