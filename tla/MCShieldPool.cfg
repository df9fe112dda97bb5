SPECIFICATION Spec
CONSTANTS
  Keys = {admin}
  NoKey = NoKey
  Mints = {sol}
  PoolMint = sol
  NativeMint = FALSE
  FeeSettings <- MCFeeSettings
  MAX_FEE_BPS = 10000
  MAX_SUPPORTED_MINTS = 1
  DENOMINATION = 5
  TimelockSeconds = 1
  CAPACITY = 4
  MAX_HISTORICAL_ROOTS = 3
  Commitments = {c1, c2}
  TokenAccounts = {r1, t1, v}
  PoolVault = v
  Recipients = {r1}
  MaxTime = 1
INVARIANTS
  TypeOK
  VaultBacksNotes
  NotesRedeemable
  RecentRootsKnown
  ClientAgrees
PROPERTIES
  WithdrawalsConserveTokens
  ImplementsNotePool
SYMMETRY CommitmentSymmetry
CHECK_DEADLOCK FALSE
