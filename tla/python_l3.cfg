\* Two receipts, one of them stamped; nothing happens to them.
CONSTANTS
  MaxReceipts = 2
  MaxStamped = 2
  MaxStamps = 1
  MaxDamage = 0
  Answers <- MCAnswers
  Keys = {"key"}
  NoVector = NoVector
SPECIFICATION EvidenceSpec
INVARIANT PythonAcceptsGoodTokens
CHECK_DEADLOCK FALSE
