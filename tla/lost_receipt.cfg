\* One run, one fault: the creation of the session fails under its start.
CONSTANTS
  Runs = {"r1"}
  Malformed = {}
  Copies <- MCSingle
  MaxFaults = 1
  MaxCloses = 0
SPECIFICATION Spec
INVARIANT EndedRunHasReceipt
CHECK_DEADLOCK FALSE
