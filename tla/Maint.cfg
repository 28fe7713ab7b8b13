CONSTANTS
  Image = {seed, i1, i2}
  NoImage = none
  Seed = seed
  MaxOps = 2
  MaintScenarios <- MCMaintScenarios
  Handler = {h1, h2}
  StateKey = {ks}
  ReadKey = {kr}
  NoKey = nokey
  KeyTTL = 1
  Retention = 0
  MaxActive = 1
  Slots = 1
  MaxOpId = 3
  OpsScenarios <- MCOpsScenarios
SPECIFICATION AgentSpec
SYMMETRY MCMaintSymmetry
CHECK_DEADLOCK FALSE
INVARIANTS
  AgentTypeOK
  TagGuarded
  DanglingTagSeen
  OutcomeHonest
  LockAttended
  KeyedOnce
  SlotsAccounted
  NoSilentCut
