CONSTANTS
  Node = {n1, n2}
  NoNode = none
  First = n1
  JoinNodes = {n2}
  Flaky = {n1}
  MaxFail = 2
  MaxToken = 3
  MaxWrites = 0
  Faults = {"hook", "age"}
SPECIFICATION FairSpec
INVARIANT
  TypeOK
PROPERTY
  ImportsAdvance
  LeadershipReturnsUnlessStranded
