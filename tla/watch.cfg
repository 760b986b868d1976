\* Four lines, the third closes the workflow.
CONSTANTS
  MaxLines = 4
  Closing = {3}
SPECIFICATION WatchSpec
INVARIANTS WatchTypeOK ShownOnceInOrder LossNeedsTearOrRace
PROPERTIES AppendedIsShown
CHECK_DEADLOCK FALSE
