\* Five receipts by one process or by two one after the other, one short
\* write, two things that happen to the copy.
CONSTANTS
  MaxReceipts = 5
  MaxSessions = 2
  MaxShort = 1
  MaxDamage = 2
  NoCopy = NoCopy
SPECIFICATION FileSpec
INVARIANTS FileTypeOK ValidIsPrefix ExitZeroIsWholeSession OverallPassIsChainValid VerifiersAgree CrashCostsOneReceipt LossIsLocalised
CHECK_DEADLOCK FALSE
