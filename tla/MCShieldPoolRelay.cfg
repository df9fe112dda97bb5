SPECIFICATION FairSpec
CONSTANTS
  Keys = {admin}
  NoKey = NoKey
  Mints = {sol}
  PoolMint = sol
  NativeMint = TRUE
  FeeSettings <- MCRelayFeeSettings
  MAX_FEE_BPS = 10000
  MAX_SUPPORTED_MINTS = 1
  DENOMINATION = 5
  TimelockSeconds = 1
  CAPACITY = 2
  MAX_HISTORICAL_ROOTS = 1
  Commitments = {c1, c2}
  TokenAccounts = {r1, r2, v}
  PoolVault = v
  Recipients = {r1, r2}
  MaxTime = 2
INVARIANTS
  RelayersMoveOnlyFees
PROPERTIES
  WithdrawalsConserveTokens
  NotesEventuallyWithdrawn
CHECK_DEADLOCK FALSE
