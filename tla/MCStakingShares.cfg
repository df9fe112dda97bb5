SPECIFICATION LedgerSpec
CONSTANTS
  NumStakers = 2
  LockOptions = {1, 2}
  Multiplier <- MCMultiplier
  MIN_STAKE = 2
  SCALE = 100
  SECONDS_PER_DAY = 1
  U64 = 4096
  U128 = 1048576
  FeeVaultFloor = 2
  Prefunding = {0, 5}
  Supply = 6
  StakeAmounts = {3}
  DepositSizes = {100}
  MaxFees = 200
  MaxTime = 3
  SyncLoss = 1
  MaxTouches = 5
INVARIANTS
  FairlyShared
  NoFeeLost
CHECK_DEADLOCK FALSE
