\* Three calls within three seconds, or one of each shape; a policy edited once.
CONSTANTS
  Files <- MCFiles
  Calls <- MCCalls
  Probes <- MCProbes
  Start = 1200
  MaxReceipts = 3
  MaxTicks = 2
  MaxEdits = 1
SPECIFICATION ReplaySpec
INVARIANTS MergeAsDocumented MoneyWithinLimits CleanReplayMeansNoDrift VelocityAsDocumented
CHECK_DEADLOCK FALSE
