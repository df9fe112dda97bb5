SPECIFICATION NoteSpec
CONSTANTS
  None = None
  Calls <- MCCalls
  Deposits <- MCDeposits
  Withdrawals <- MCWithdrawals
  Needs <- MCNeeds
  Consumes <- MCConsumes
  SkipPreflight <- MCSkipPreflight
  VALIDITY = 1
  RetryCounts = {1}
  MaxHeight = 2
INVARIANTS
  SuccessMeansEffect
  RepeatsNeedLostAnswers
PROPERTIES
  CommandsEnd
CHECK_DEADLOCK FALSE
