--------------------------- MODULE CircuitBreaker ---------------------------
(***************************************************************************)
(* The circuit breaker of the OpenRouter calls (circuit_breaker.py): the   *)
(* module's globals as one record and its functions, each atomic under the *)
(* module's lock, as functions on that record.  Time is one bit: whether   *)
(* the grace period has passed since the last recorded failure.  Only      *)
(* "below the threshold" and "at or above it" are ever told apart, so the  *)
(* failures are counted up to the threshold.                               *)
(***************************************************************************)
EXTENDS Naturals

CONSTANTS FailureThreshold,   \* failures in a row that open the circuit (3)
          RecoveryThreshold   \* successes in HALF that close it again (2)

ASSUME ThresholdsAssumption ==
  /\ FailureThreshold \in Nat \ {0}
  /\ RecoveryThreshold \in Nat \ {0}

Breaker ==
  [state     : {"CLOSED", "OPEN", "HALF"},
   failures  : 0 .. FailureThreshold,
   successes : 0 .. RecoveryThreshold,
   graceOver : BOOLEAN]

\* As the module is loaded, and as reset() leaves it.
NewBreaker == [state |-> "CLOSED", failures |-> 0, successes |-> 0, graceOver |-> TRUE]

\* OPEN becomes HALF when somebody looks after the grace period.
CheckTransition(b) ==
  IF b.state = "OPEN" /\ b.graceOver THEN [b EXCEPT !.state = "HALF"] ELSE b

\* Mutant: a success clears the failures in CLOSED only.
RecordSuccessKeeping(b) ==
  LET counted == b.successes + 1 IN
  CASE b.state = "CLOSED" -> [b EXCEPT !.failures = 0, !.successes = 0]
    [] b.state = "OPEN"   -> b
    [] b.state = "HALF" /\ counted < RecoveryThreshold
                          -> [b EXCEPT !.successes = counted]
    [] OTHER              -> [b EXCEPT !.successes = 0, !.state = "CLOSED"]

\* Mutant: every success starts the count of successes again.
RecordSuccessForgetting(b) ==
  [b EXCEPT !.failures = 0, !.successes = 0]

\* In OPEN the success of a call that began earlier clears the failures only.
RecordSuccess(b) ==
  LET counted == b.successes + 1 IN
  CASE b.state = "CLOSED" -> [b EXCEPT !.failures = 0, !.successes = 0]
    [] b.state = "OPEN"   -> [b EXCEPT !.failures = 0]
    [] b.state = "HALF" /\ counted < RecoveryThreshold
                          -> [b EXCEPT !.failures = 0, !.successes = counted]
    [] OTHER              -> [b EXCEPT !.failures = 0, !.successes = 0, !.state = "CLOSED"]

\* Every failure, those in OPEN too, starts the grace period again.
RecordFailure(b) ==
  LET counted == IF b.failures < FailureThreshold THEN b.failures + 1 ELSE FailureThreshold
  IN [state     |-> IF counted = FailureThreshold THEN "OPEN" ELSE b.state,
      failures  |-> counted,
      successes |-> 0,
      graceOver |-> FALSE]

\* A circuit that is not open has failed fewer times in a row than it takes:
\* in HALF the count still stands where it opened the circuit.
ClosedBelowThreshold(b) == b.state = "CLOSED" => b.failures < FailureThreshold
=============================================================================
