CONSTANTS
  CP = {c1, c2}
  Nobody = none
  First = c1
  Hosts = {h}
  RingSize = 2
  MaxIssued = 4
  MaxToken = 3
  Scenarios <- MCScenarios
SPECIFICATION FairSpec
CHECK_DEADLOCK FALSE
INVARIANTS
  TypeOK
  DriftCovered
  LastGoodWhole
PROPERTY
  InstallsFenced
  ConfigArrives
