SPECIFICATION Spec
CONSTANTS
  k1 = k1
  k2 = k2
  Keys = {k1, k2}
  NoKey = NoKey
  Mints = {sol}
  FeeSettings <- MCFeeSettings
  MAX_FEE_BPS = 10000
  MAX_SUPPORTED_MINTS = 1
  TIMELOCK = 2
  SignerLists <- MCSignerLists
  FeeTokens = 1
  BurnAmounts = {1}
  MaxProposals = 2
  MaxTime = 4
INVARIANTS
  ProposalsSettleOnce
PROPERTY
  FeesChangeOnlyWithNotice
CHECK_DEADLOCK FALSE
