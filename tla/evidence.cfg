\* Five receipts, one timestamp of any kind, one thing that happens to the
\* evidence; or a test vector.
CONSTANTS
  MaxReceipts = 5
  MaxStamped = 3
  MaxStamps = 1
  MaxDamage = 1
  Answers <- MCAnswers
  Keys = {"key"}
  NoVector = NoVector
SPECIFICATION EvidenceSpec
INVARIANTS EvidenceTypeOK CleanExitMeansAccounted StampSealsReceipt UpperTiersAgree CountedOnce VectorsAsExpected
PROPERTIES OrderChangesNoVerdict
CHECK_DEADLOCK FALSE
