\* Two concurrent runs, one of them heard twice and one malformed; two faults,
\* one close.
CONSTANTS
  Runs = {"r1", "r2"}
  Malformed = {"r2"}
  Copies <- MCCopies
  MaxFaults = 2
  MaxCloses = 1
SPECIFICATION FairSpec
INVARIANTS TypeOK ChainLinked PrevIsLastLine WrittenExactlyOnce AttestedOnce VersionsGiveOrder
PROPERTIES CloseLosesNothingQueued FailuresStayLocal ImplementsTrail CallsSettle
CHECK_DEADLOCK FALSE
