CONSTANTS
  Slot = {1, 2, 3, 4, 5}
  Request = {r}
  Conn = {k1, k2, k3}
  Caps = {1, 2}
  MaxFeed = 3
  Attempts = 3
  FeedScenarios <- MCFeedScenarios
  Rules = {a, b}
  NoRules = none
  MaxPolicy = 3
  PolicyScenarios <- MCPolicyScenarios
  Host = {h1, h2}
  Ticket = {t1, t2}
  MaxSerial = 2
  IdentityScenarios <- MCIdentityScenarios
SPECIFICATION ServicesSpec
CHECK_DEADLOCK FALSE
INVARIANTS
  ServicesTypeOK
  OnlyLeaderRenews
  PromoteGuardFree
  CountsOnlyLive
  CountedUnlessCut
  FloorProvesServed
  OverridesSettle
  TokensHonest
  AckedDurable
  TokenOnce
  RevocationHolds
  RegisteredIsHeld
PROPERTY
  StopReturns
  NoFeedRollback
  FeedArrives
  NoClobber
