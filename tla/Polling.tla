-------------------------------- MODULE Polling --------------------------------
(***************************************************************************)
(* AdaptivePollingPolicy (polling.py): how failed polls and received reports  *)
(* choose the interval between polls, and when the device counts as            *)
(* unavailable.  Each operator maps the policy's fields to their next values.  *)
(***************************************************************************)
EXTENDS Integers

CONSTANTS
  ConfiguredInterval,   \* the option, any integer
  MinInterval,
  MaxInterval,
  RecoverySuccesses,
  TransientTolerance,
  MaxDoublings,         \* 4 in the code
  FailureBound          \* failures are counted up to here: no more can be told apart

Least(a, b) == IF a <= b THEN a ELSE b
Greatest(a, b) == IF a >= b THEN a ELSE b

\* The bounds as __post_init__ leaves them.
Ceiling == Greatest(MaxInterval, MinInterval)
Recoveries == Greatest(RecoverySuccesses, 1)
Tolerance == Greatest(TransientTolerance, 0)

ASSUME PollingAssumption ==
  /\ ConfiguredInterval \in Int /\ MaxInterval \in Int
  /\ RecoverySuccesses \in Int /\ TransientTolerance \in Int
  /\ MinInterval \in Nat \ {0}
  /\ MaxDoublings \in Nat \ {0}
  /\ FailureBound \in Nat
  /\ FailureBound >= MaxDoublings /\ FailureBound > Tolerance

BaseInterval == Greatest(MinInterval, Least(ConfiguredInterval, Ceiling))

Policies ==
  [interval : BaseInterval .. Ceiling, failures : 0 .. FailureBound,
   successes : 0 .. Recoveries - 1]

NewPolicy == [interval |-> BaseInterval, failures |-> 0, successes |-> 0]

IsHealthy(p) == p.failures = 0
ShouldReportUnavailable(p) == p.failures > Tolerance

Backoff(failures) ==
  Least(Ceiling,
        Greatest(BaseInterval, BaseInterval * 2 ^ Least(failures, MaxDoublings)))

\* RecordSuccess with a mistake: a report in doubt does not count towards recovery
\* but the interval is restored.
RecordSuccessEager(p) ==
  IF p.failures = 0 \/ p.successes + 1 >= Recoveries
  THEN NewPolicy
  ELSE [p EXCEPT !.successes = @ + 1, !.interval = BaseInterval]

RecordSuccess(p) ==
  IF p.failures = 0 THEN [p EXCEPT !.interval = BaseInterval]
  ELSE IF p.successes + 1 >= Recoveries THEN NewPolicy
  ELSE [p EXCEPT !.successes = @ + 1]

RecordFailure(p) ==
  LET n == Least(p.failures + 1, FailureBound)
  IN [interval |-> Backoff(n), failures |-> n, successes |-> 0]

\* What holds of a policy whatever was recorded: the interval follows from the
\* failures that have not been recovered from.
Consistent(p) ==
  /\ p.interval = IF p.failures = 0 THEN BaseInterval ELSE Backoff(p.failures)
  /\ p.failures = 0 => p.successes = 0
===============================================================================
