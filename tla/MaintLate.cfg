CONSTANTS
  Image = {seed, i1}
  NoImage = none
  Seed = seed
  MaxOps = 1
  MaintScenarios <- MCMaintLate
  Handler = {h1, h2}
  StateKey = {ks}
  ReadKey = {kr}
  NoKey = nokey
  KeyTTL = 1
  Retention = 0
  MaxActive = 1
  Slots = 1
  MaxOpId = 3
  OpsScenarios <- MCOpsScenarios
SPECIFICATION LateSpec
CHECK_DEADLOCK FALSE
INVARIANT NothingToReconcile
