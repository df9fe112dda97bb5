SPECIFICATION DeploymentSpec
CONSTANTS
  Keys = {k1}
  NoKey = NoKey
  Mints = {"wsol", "usdc"}
  FeeSettings <- MCFees
  MAX_FEE_BPS = 4
  MAX_SUPPORTED_MINTS = 2
  MaxTime = 0
  Terminals = {"t1", "t2"}
  ScriptsAt <- MCScriptsAt
  Deployer = k1
  WSOL = "wsol"
  StandardPools <- MCStandardPools
  MigrateMints <- MCMigrateMints
  MigratePools <- MCMigratePools
  MainnetCluster = FALSE
  WsolPool <- MCWsolPool
  MIN_TIMELOCK_SECONDS = 2
  MAX_TIMELOCK_SECONDS = 3
  MIN_DENOMINATION = 1
  MAX_DENOMINATION = 2
  MaxMishaps = 1
INVARIANT
  ReadyUnlessErrorOverlooked
PROPERTIES
  RerunsUndoNothing
  StandardPoolsGetMade
CHECK_DEADLOCK FALSE
