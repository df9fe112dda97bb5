SPECIFICATION FairSpec
CONSTANTS
  NumStakers = 2
  LockOptions = {1, 2}
  Multiplier <- MCMultiplier
  MIN_STAKE = 2
  SCALE = 10
  SECONDS_PER_DAY = 1
  U64 = 32
  U128 = 2048
  FeeVaultFloor = 2
  Prefunding = {0}
  Supply = 6
  StakeAmounts = {3}
  DepositSizes = {2}
  MaxFees = 4
  MaxTime = 3
INVARIANTS
  TypeOK
  WeightsAddUp
  PrincipalBacked
  Solvent
  ExactOwed
  FeesCover
  ExitNeverBlocked
  ClientAgrees
PROPERTIES
  OwedOnlyMovesByFeesAndPayouts
  PrincipalEventuallyReturned
CHECK_DEADLOCK FALSE
